---- MODULE Spec2Model ----
(***************************************************************************)
(* Model of the grouptoss bot: the TossManager engine (toss-manager.ts),   *)
(* the file store, the transaction verifier and the amount codec.          *)
(*                                                                         *)
(* Every inbound message is handled by an async function.  A stream loop    *)
(* awaits its own handler only; one loop runs per configured network, and   *)
(* the recovery path of a loop starts a further loop and then goes on       *)
(* itself (xmtp-handler streamMessages / initializeClient), so handlers     *)
(* of several loops interleave at their await points on one TossManager     *)
(* and one file store.  A handler is modelled as a process in a slot of     *)
(* Handlers.  Every save is a step of its own; the reads a handler makes    *)
(* one after the other, with no save between them, are taken in one step.   *)
(*                                                                         *)
(* The chain monitor (helpers/transactionMonitor.ts) polls on a timer: a    *)
(* tick is an async call, and the timer fires whether or not an earlier     *)
(* tick has returned, so ticks overlap on one wallet map.  It has its own   *)
(* specifications (WatcherSpec, WatcherFairSpec, LifecycleSpec), and so     *)
(* have the round trip of the amount codec (CodecSpec) and the decoder on   *)
(* received amounts (DecoderSpec).                                          *)
(*                                                                         *)
(* Further specifications run the engine on narrower traffic: joins,        *)
(* refresh and close with one message more (CloseSpec), creation and        *)
(* force-close on an empty store (CreateCloseSpec), creation with the       *)
(* amount texts a prompt can carry (StakeSpec), creation and joins on a     *)
(* store whose writes can fail (StoreFailSpec), and transaction references  *)
(* told apart by the hash they carry (TxRefSpec).  RetrySpec follows one    *)
(* call of checkTransactionWithRetries through its waits, and PayoutSpec    *)
(* computes the prize of a close for a range of stakes and head counts.     *)
(***************************************************************************)
EXTENDS Integers, Sequences, FiniteSets, TLC

\* ------------------------------------------------------------------ bounds
MaxToss == 2
MaxMsgs == 2
MaxCloseMsgs == 3
MaxBlock == 3
MaxStarts == 2

\* --------------------------------------------------------------- universes
Handlers == {"h1", "h2"}
Users    == {"alice", "bob"}
Groups   == {"g1"}
Dms      == {"dm"}
Convs    == Groups \cup Dms
TossIds  == 1..MaxToss
NoConv   == "none"
NoOption == "none"

\* conversation.members() in join order, the bot itself excluded
Members == <<"alice", "bob">>

\* TossStatus (types.ts)
CREATED            == "CREATED"
WAITING_FOR_PLAYER == "WAITING_FOR_PLAYER"
IN_PROGRESS        == "IN_PROGRESS"
COMPLETED          == "COMPLETED"
CANCELLED          == "CANCELLED"
Terminal           == {COMPLETED, CANCELLED}

\* constants.ts / transactions.ts
MAX_USDC_AMOUNT == 10
maxRetries      == 5
MinorPerUnit    == 1000000

\* what the toss parser returns: two option labels and a stake (minor units)
ParsedOptions == <<"Yes", "No">>
ParsedStakes  == {100000}

\* option strings that arrive in message metadata or as a close argument
MetaOptions  == {NoOption, "yes", "maybe"}
CloseOptions == {NoOption, "yes", "maybe"}

\* transfer amounts (minor units) seen on chain, and escrow balances
BalanceChoices == {100000, 250000, 350000}
TransferOutcomes == {"ok", "failed"}

\* String.prototype.toLowerCase on the strings of the model
toLowerCase(s) ==
  CASE s = "Yes" -> "yes"
    [] s = "No"  -> "no"
    [] OTHER     -> s

Range(s) == {s[k] : k \in DOMAIN s}

\* ------------------------------------------------------------------- state
VARIABLES
  store,      \* .data/tosses: persisted toss record per id (NoToss = no file)
  wallets,    \* .data/wallet_data: toss ids that own an escrow wallet
  monitored,  \* TransactionMonitor.monitoredWallets: its keys (by toss id)
  client,     \* TossManager.client is set
  h,          \* per handler slot: program counter and locals
  transfers,  \* successful outbound transfers per toss and recipient
  msgs,       \* messages handled so far
  msgLimit,   \* messages the run handles at most
  head,       \* the chain: number of its latest block
  chainLogs,  \* the chain: stablecoin Transfer logs, as <<wallet, block>>
  lastCheckedBlock,   \* MonitoredWallet.lastCheckedBlock of each wallet object
  addedAt,    \* history: the checkpoint addWalletToMonitor gave each wallet
  isMonitoring,       \* TransactionMonitor.isMonitoring
  monitoringInterval, \* TransactionMonitor.monitoringInterval holds a timer
  timers,     \* interval timers set and not cleared
  starts,     \* calls of startMonitoring so far
  run,        \* per runner slot: a checkForNewTransactions call under way
  codec,      \* the amount codec: one encode and decode of a join button
  retry,      \* checkTransactionWithRetries: one call and its waits
  payout      \* the prize of one close and what the wallet service did with it

engineVars  == <<store, wallets, client, h, transfers, msgs, msgLimit>>
watcherVars == <<head, chainLogs, lastCheckedBlock, addedAt, isMonitoring,
                 monitoringInterval, timers, starts, run>>

vars == <<store, wallets, monitored, client, h, transfers, msgs, msgLimit,
          watcherVars, codec, retry, payout>>

NoToss ==
  [ id |-> 0, creator |-> "", conversationId |-> NoConv, tossAmount |-> 0,
    status |-> "NONE", participants |-> <<>>, participantOptions |-> <<>>,
    tossOptions |-> <<>>, tossResult |-> "", paymentSuccess |-> FALSE,
    failedWinners |-> <<>>, failedRefunds |-> <<>> ]

Idle ==
  [ kind |-> "idle", pc |-> "idle", conv |-> NoConv, sender |-> "",
    tossId |-> 0, toss |-> NoToss, opt |-> NoOption, amount |-> 0,
    txStatus |-> "", txHash |-> "", succ |-> {}, failed |-> <<>>,
    todo |-> <<>>, result |-> "" ]

\* The bot starts on the .data directory its earlier runs left behind: no
\* toss, or toss 1 as created in the group by alice, with no player yet,
\* with alice as its first player, or with alice and bob as its players.
\* The monitor's wallet map is in memory only, so it starts empty.
StoredToss ==
  [ NoToss EXCEPT !.id = 1, !.creator = "alice", !.tossAmount = 100000,
                  !.status = CREATED, !.conversationId = "g1",
                  !.tossOptions = ParsedOptions ]

StoredTossJoined ==
  [ StoredToss EXCEPT
      !.participants = <<"alice">>,
      !.participantOptions = <<[inboxId |-> "alice", option |-> "No"]>>,
      !.status = WAITING_FOR_PLAYER ]

StoredTossTwoPlayers ==
  [ StoredTossJoined EXCEPT
      !.participants = <<"alice", "bob">>,
      !.participantOptions = <<[inboxId |-> "alice", option |-> "No"],
                               [inboxId |-> "bob", option |-> "Yes"]>> ]

InitStores ==
  { [t \in TossIds |-> NoToss],
    [t \in TossIds |-> IF t = 1 THEN StoredToss ELSE NoToss],
    [t \in TossIds |-> IF t = 1 THEN StoredTossJoined ELSE NoToss],
    [t \in TossIds |-> IF t = 1 THEN StoredTossTwoPlayers ELSE NoToss] }

\* a checkForNewTransactions call: none
NoRun ==
  [ kind |-> "idle", pc |-> "idle", currentBlock |-> 0, cur |-> 0,
    from |-> 0, todo |-> <<>>, err |-> FALSE ]

Runners == {"r1", "r2"}

\* the amount codec at rest
NoCodec == [pc |-> "idle", index |-> 0, stake |-> 0, amount |-> 0, option |-> ""]

\* no call of checkTransactionWithRetries under way
NoRetry ==
  [ pc |-> "idle", minedAt |-> 0, status |-> "", attempt |-> 0,
    currentDelay |-> 0, waited |-> 0, calls |-> 0, result |-> "" ]

\* no prize under way
NoPayout ==
  [ pc |-> "idle", tossAmount |-> 0, participants |-> 0, winners |-> 0,
    totalPot |-> 0, transfer |-> "" ]

\* new TransactionMonitor(storage): an empty wallet map, not monitoring, no
\* timer.  The chain stands at its first block of the run.
MonitorInit ==
  /\ head = 1
  /\ chainLogs = {}
  /\ lastCheckedBlock = [t \in TossIds |-> 0]
  /\ addedAt = [t \in TossIds |-> 0]
  /\ isMonitoring = FALSE
  /\ monitoringInterval = FALSE
  /\ timers = 0
  /\ starts = 0
  /\ run = [r \in Runners |-> NoRun]

Init ==
  /\ store \in InitStores
  /\ wallets = {t \in TossIds : store[t].id # 0}
  /\ monitored = {}
  /\ client = FALSE
  /\ h = [x \in Handlers |-> Idle]
  /\ transfers = [t \in TossIds |-> [u \in Users |-> 0]]
  /\ msgs = 0
  /\ msgLimit = MaxMsgs
  /\ MonitorInit
  /\ codec = NoCodec
  /\ retry = NoRetry
  /\ payout = NoPayout

\* ----------------------------------------------------------------- helpers
Exists(t) == store[t].id # 0

\* FileStorage.getData / TossManager.getToss
getToss(t) == store[t]

\* process slot bookkeeping: a new message takes the first free slot
LowerSlot(y, x) == y = "h1" /\ x = "h2"

Free(x) ==
  /\ h[x].pc = "idle"
  /\ \A y \in Handlers : h[y].pc = "idle" => ~ LowerSlot(y, x)
  /\ msgs < msgLimit

Begin(x, rec) ==
  /\ msgs' = msgs + 1
  /\ client' = TRUE                 \* processMessage: tossManager.setClient
  /\ h' = [h EXCEPT ![x] = rec]

\* the handler has produced its reply (res); Return sends it and frees the slot
Done(kind, t, u, res) ==
  [Idle EXCEPT !.pc = "done", !.kind = kind, !.tossId = t, !.sender = u,
               !.result = res]

Finish(x, res) == h' = [h EXCEPT ![x] = Done(h[x].kind, 0, "", res)]

\* TossManager.getLastIdToss: highest id among the toss files, 0 if none
getLastIdToss ==
  IF \E t \in TossIds : Exists(t)
  THEN CHOOSE t \in TossIds : Exists(t) /\ \A u \in TossIds : Exists(u) => u <= t
  ELSE 0

\* creations under way; no more than MaxToss ids are ever handed out
Creating == {y \in Handlers : h[y].kind = "create" /\ h[y].pc # "done"}

\* TossManager.getActiveTossForConversation: the first file, in directory
\* order, of a toss bound to the conversation that is not COMPLETED or
\* CANCELLED.  The directory order is not specified, so the result is any of
\* the matching tosses; {0} stands for null.
getActiveTossForConversation(c) ==
  LET m == {t \in TossIds : Exists(t) /\ store[t].conversationId = c
                             /\ store[t].status \notin Terminal}
  IN IF m = {} THEN {0} ELSE m


\* --------------------------------------------------- toss creation (group)
\* TossManager.createGame: the record written by the first save
createGame(id, creator, tossAmount, conversationId) ==
  [ NoToss EXCEPT !.id = id, !.creator = creator, !.tossAmount = tossAmount,
                  !.status = CREATED, !.conversationId = conversationId ]

\* handleCommand, text that is no explicit command: the DM guard, then the
\* single-active-toss guard; a rejection is the handler's whole run
handleCommand(x) ==
  /\ Free(x)
  /\ \E c \in Convs, u \in Users :
      \E a \in getActiveTossForConversation(c) :
        IF c \in Dms
        THEN Begin(x, Done("create", 0, "", "only_in_groups"))
        ELSE IF a # 0
        THEN Begin(x, Done("create", a, "", "already_active"))
        ELSE /\ getLastIdToss + Cardinality(Creating) < MaxToss
             /\ Begin(x, [Idle EXCEPT !.kind = "create", !.conv = c,
                                      !.sender = u, !.pc = "create_parse"])
  /\ UNCHANGED <<store, wallets, monitored, transfers>>
  /\ UNCHANGED <<watcherVars, codec, retry, payout, msgLimit>>

\* createGameFromPrompt: the prompt is parsed by the model; createGame:
\* the amount is checked and getLastIdToss gives the new id
createGame_parse(x) ==
  /\ h[x].pc = "create_parse"
  /\ \/ Finish(x, "parse_error")
     \/ \E amt \in ParsedStakes :
          IF amt > MAX_USDC_AMOUNT * MinorPerUnit
          THEN Finish(x, "amount_too_large")
          ELSE h' = [h EXCEPT ![x].pc = "create_save",
                              ![x].tossId = getLastIdToss + 1,
                              ![x].amount = amt]
  /\ UNCHANGED <<store, wallets, monitored, client, transfers, msgs>>
  /\ UNCHANGED <<watcherVars, codec, retry, payout, msgLimit>>

\* createGame: walletService.createWallet(tossId), first saveData
createGame_save(x) ==
  /\ h[x].pc = "create_save"
  /\ LET t   == h[x].tossId
         rec == createGame(t, h[x].sender, h[x].amount, h[x].conv)
     IN /\ wallets' = wallets \cup {t}
        /\ store' = [store EXCEPT ![t] = rec]
        /\ h' = [h EXCEPT ![x].pc = "create_options", ![x].toss = rec,
                          ![x].amount = 0]
  /\ UNCHANGED <<monitored, client, transfers, msgs>>
  /\ UNCHANGED <<watcherVars, codec, retry, payout, msgLimit>>

\* createGame: transactionMonitor.addWalletToMonitor; createGameFromPrompt:
\* topic and options are set on the object createGame returned and that
\* object is saved again; handleCommand then sends the confirmation
createGameFromPrompt(x) ==
  /\ h[x].pc = "create_options"
  /\ monitored' = monitored \cup {h[x].tossId}
  /\ store' = [store EXCEPT ![h[x].tossId] =
                 [h[x].toss EXCEPT !.tossOptions = ParsedOptions]]
  /\ Finish(x, "created")
  /\ UNCHANGED <<wallets, client, transfers, msgs>>
  /\ UNCHANGED <<watcherVars, codec, retry, payout, msgLimit>>

\* ------------------------------------------------ transaction verification
\* The chain, as one verification sees it: the receipt of the transaction is
\* available from attempt minedAt on (never, when minedAt > maxRetries) and
\* then reports status.
ChainCases ==
  { [minedAt |-> 0,              status |-> "success"],
    [minedAt |-> maxRetries,     status |-> "success"],
    [minedAt |-> 0,              status |-> "reverted"],
    [minedAt |-> maxRetries + 1, status |-> "success"] }

\* verifyTransaction: null while the receipt cannot be fetched, else the
\* details with status "success" or "failed"
verifyTransaction(chain, attempt) ==
  IF attempt < chain.minedAt THEN "null"
  ELSE IF chain.status = "success" THEN "success" ELSE "failed"

\* checkTransactionWithRetries: attempts 0..maxRetries, the first details found
RECURSIVE checkLoop(_, _)
checkLoop(chain, attempt) ==
  LET txDetails == verifyTransaction(chain, attempt)
  IN IF txDetails # "null" THEN txDetails
     ELSE IF attempt = maxRetries THEN "null"
     ELSE checkLoop(chain, attempt + 1)

checkTransactionWithRetries(chain) == checkLoop(chain, 0)

\* the guards without the test of the status
txVerified_anyStatus(txDetails) == txDetails # "null"

\* handleTransactionReference: the two guards on the verification result
txVerified(txDetails) == txDetails # "null" /\ txDetails = "success"

\* ------------------------------------------------------------ option ladder
\* A transaction-reference message: where the stablecoin transfer went (the
\* toss id of the escrow wallet, 0 for an address that is no escrow wallet),
\* its amount, and the option strings its metadata carries.
Payloads ==
  { [selectedOption |-> NoOption, option |-> NoOption, amount |-> 100002],
    [selectedOption |-> "yes",    option |-> NoOption, amount |-> 100001],
    [selectedOption |-> NoOption, option |-> "maybe",  amount |-> 100001] }

\* extractSelectedOption: metadata.selectedOption first, then the other keys
extractSelectedOption(m) ==
  IF m.selectedOption # NoOption THEN m.selectedOption
  ELSE IF m.option # NoOption THEN m.option
  ELSE NoOption

\* extractOptionFromTransferAmount taking the remainder itself as the index
extractOptionFromTransferAmount_zeroBased(amount, toss) ==
  LET baseAmount  == (amount \div 10) * 10
      remainder   == amount - baseAmount
      optionIndex == remainder
  IN IF remainder >= 1 /\ remainder <= 5
     THEN IF toss.id = 0 THEN NoOption
          ELSE IF Len(toss.tossOptions) = 0 THEN NoOption
          ELSE IF optionIndex >= 0 /\ optionIndex < Len(toss.tossOptions)
               THEN toss.tossOptions[optionIndex + 1]
               ELSE NoOption
     ELSE NoOption

\* extractOptionFromTransferAmount
extractOptionFromTransferAmount(amount, toss) ==
  LET baseAmount  == (amount \div 10) * 10
      remainder   == amount - baseAmount
      optionIndex == remainder - 1
  IN IF remainder >= 1 /\ remainder <= 5
     THEN IF toss.id = 0 THEN NoOption
          ELSE IF Len(toss.tossOptions) = 0 THEN NoOption
          ELSE IF optionIndex >= 0 /\ optionIndex < Len(toss.tossOptions)
               THEN toss.tossOptions[optionIndex + 1]
               ELSE NoOption
     ELSE NoOption

\* extractTossData: storage.getWalletByAddress(recipient).userId, 0 for null
extractTossData(to) == IF to \in wallets THEN to ELSE 0

\* -------------------------------------------------------------- engine ops
includes(seq, e) == e \in Range(seq)

acceptingPlayers(toss) == toss.status \in {CREATED, WAITING_FOR_PLAYER}

\* addPlayerToGame: option validation
validOption(toss, chosenOption) ==
  Len(toss.tossOptions) > 0 =>
    toLowerCase(chosenOption) \in {toLowerCase(o) : o \in Range(toss.tossOptions)}

\* addPlayerToGame without its test of participants.includes(player)
addPlayerToGame_error_noIncludes(toss, player, chosenOption, hasPaid) ==
  IF toss.id = 0 THEN "Toss not found"
  ELSE IF ~acceptingPlayers(toss) THEN "Toss is not accepting players"
  ELSE IF ~hasPaid THEN "Please pay"
  ELSE IF ~validOption(toss, chosenOption) THEN "Invalid option"
  ELSE ""

\* addPlayerToGame on the record it read: "" when the player is added, else
\* the error thrown
addPlayerToGame_error(toss, player, chosenOption, hasPaid) ==
  IF toss.id = 0 THEN "Toss not found"
  ELSE IF ~acceptingPlayers(toss) THEN "Toss is not accepting players"
  ELSE IF includes(toss.participants, player) THEN "You are already in this toss"
  ELSE IF ~hasPaid THEN "Please pay"
  ELSE IF ~validOption(toss, chosenOption) THEN "Invalid option"
  ELSE ""

addPlayerToGame(toss, player, chosenOption) ==
  [ toss EXCEPT
      !.participants = Append(@, player),
      !.participantOptions = Append(@, [inboxId |-> player, option |-> chosenOption]),
      !.status = WAITING_FOR_PLAYER ]

\* setActiveTossForConversation: conversationId is set on the toss read
setActiveTossForConversation(toss, conversationId) ==
  [toss EXCEPT !.conversationId = conversationId]

\* ------------------------------------------- transaction-reference handler
\* handleTransactionReference up to its check of the conversation:
\* checkTransactionWithRetries, the status guards, extractTossData,
\* extractSelectedOption and, when the metadata names no option,
\* extractOptionFromTransferAmount on the toss as stored
handleTransactionReference(x) ==
  /\ Free(x)
  /\ \E chain \in ChainCases :
       LET txDetails == checkTransactionWithRetries(chain)
       IN IF ~txVerified(txDetails)
          THEN Begin(x, [Done("txref", 0, "", IF txDetails = "null"
                                              THEN "unverified" ELSE "failed_tx")
                           EXCEPT !.txStatus = txDetails])
          ELSE \E c \in Convs, u \in Users, to \in 0..MaxToss, m \in Payloads :
                 LET tossId == extractTossData(to)
                     sel    == extractSelectedOption(m)
                 IN IF tossId = 0
                    THEN Begin(x, [Done("txref", 0, "", "not_a_toss_wallet")
                                     EXCEPT !.txStatus = txDetails])
                    ELSE Begin(x, [Idle EXCEPT
                           !.kind = "txref", !.conv = c, !.sender = u,
                           !.tossId = tossId,
                           !.opt = IF sel # NoOption THEN sel
                                   ELSE extractOptionFromTransferAmount(
                                          m.amount, getToss(tossId)),
                           !.txStatus = txDetails,
                           !.pc = "tx_active"])
  /\ UNCHANGED <<store, wallets, monitored, transfers>>
  /\ UNCHANGED <<watcherVars, codec, retry, payout, msgLimit>>

\* handleTransactionReference: the payment must be for the toss active in
\* this conversation, if there is one, and an option must have been found;
\* processTossJoin: getToss, getActiveTossForConversation, and the getToss
\* of setActiveTossForConversation, when the conversation has no active
\* toss, or else of addPlayerToGame
processTossJoin(x) ==
  /\ h[x].pc = "tx_active"
  /\ \E a \in getActiveTossForConversation(h[x].conv) :
       IF a # 0 /\ a # h[x].tossId THEN Finish(x, "different_toss")
       ELSE IF h[x].opt = NoOption THEN Finish(x, "no_option")
       ELSE IF getToss(h[x].tossId).id = 0 THEN Finish(x, "toss_not_found")
       ELSE IF a = 0
       THEN h' = [h EXCEPT ![x].toss = getToss(h[x].tossId),
                           ![x].pc = "setactive_save"]
       ELSE h' = [h EXCEPT ![x].toss = getToss(h[x].tossId),
                           ![x].pc = "add_save"]
  /\ UNCHANGED <<store, wallets, monitored, client, transfers, msgs>>
  /\ UNCHANGED <<watcherVars, codec, retry, payout, msgLimit>>

\* setActiveTossForConversation: the save
setActiveTossForConversation_save(x) ==
  /\ h[x].pc = "setactive_save"
  /\ store' = [store EXCEPT ![h[x].tossId] =
                 setActiveTossForConversation(h[x].toss, h[x].conv)]
  /\ h' = [h EXCEPT ![x].pc = "add_read", ![x].toss = NoToss]
  /\ UNCHANGED <<wallets, monitored, client, transfers, msgs>>
  /\ UNCHANGED <<watcherVars, codec, retry, payout, msgLimit>>

\* addPlayerToGame after setActiveTossForConversation: read the toss
addPlayerToGame_read(x) ==
  /\ h[x].pc = "add_read"
  /\ h' = [h EXCEPT ![x].toss = getToss(h[x].tossId), ![x].pc = "add_save"]
  /\ UNCHANGED <<store, wallets, monitored, client, transfers, msgs>>
  /\ UNCHANGED <<watcherVars, codec, retry, payout, msgLimit>>

\* addPlayerToGame: the checks, the push and the save; processTossJoin then
\* sends "Successfully joined", or the error
addPlayerToGame_save(x) ==
  /\ h[x].pc = "add_save"
  /\ LET err == addPlayerToGame_error(h[x].toss, h[x].sender, h[x].opt, TRUE)
     IN IF err # ""
        THEN /\ Finish(x, err)
             /\ UNCHANGED store
        ELSE /\ store' = [store EXCEPT ![h[x].tossId] =
                            addPlayerToGame(h[x].toss, h[x].sender, h[x].opt)]
             /\ h' = [h EXCEPT ![x] = [Done("txref", h[x].tossId, h[x].sender, "joined")
                                         EXCEPT !.txStatus = h[x].txStatus,
                                                !.txHash = h[x].txHash,
                                                !.amount = h[x].amount]]
  /\ UNCHANGED <<wallets, monitored, client, transfers, msgs>>
  /\ UNCHANGED <<watcherVars, codec, retry, payout, msgLimit>>

\* ------------------------------------------------------------ closing a toss
\* [...new Set(participantOptions.map(p => p.option))]: first occurrences
RECURSIVE uniqueOptions(_)
uniqueOptions(po) ==
  IF po = <<>> THEN <<>>
  ELSE LET init == uniqueOptions(SubSeq(po, 1, Len(po) - 1))
           o    == po[Len(po)].option
       IN IF includes(init, o) THEN init ELSE Append(init, o)

\* executeToss: the options a winning option is matched against
optionsOf(toss) ==
  IF Len(toss.tossOptions) > 0 THEN toss.tossOptions
  ELSE uniqueOptions(toss.participantOptions)

\* options.find(option => option.toLowerCase() === winningOption.toLowerCase())
matchingOption(options, winningOption) ==
  LET hit == {k \in DOMAIN options :
                toLowerCase(options[k]) = toLowerCase(winningOption)}
  IN IF hit = {} THEN NoOption
     ELSE options[CHOOSE k \in hit : \A j \in hit : k <= j]

\* participantOptions.filter(p => p.option.toLowerCase() === matching...)
winnersOf(toss, matching) ==
  LET isWinner(p) == toLowerCase(p.option) = toLowerCase(matching)
      w == SelectSeq(toss.participantOptions, isWinner)
  IN [k \in DOMAIN w |-> w[k].inboxId]

\* walletService.transfer succeeded: one more outbound transfer to user u
recordTransfer(t, u) == [transfers EXCEPT ![t][u] = @ + 1]

\* handleExplicitCommand, case "close": the guards on the active toss; the
\* handler then sends a message before it calls executeToss or forceCloseToss
handleExplicitCommand_close(x) ==
  /\ Free(x)
  /\ \E c \in Convs, u \in Users, w \in CloseOptions :
   \E a \in getActiveTossForConversation(c) :
    /\ IF c \in Dms
       THEN Begin(x, Done("close", 0, "", "only_in_groups"))
       ELSE IF a = 0
       THEN Begin(x, Done("close", 0, "", "no_active_toss"))
       ELSE IF u # store[a].creator
       THEN Begin(x, Done("close", a, u, "not_creator"))
       ELSE IF Len(store[a].participants) < 2 /\ w # NoOption
       THEN Begin(x, Done("close", a, u, "not_enough_participants"))
       ELSE Begin(x, [Idle EXCEPT !.kind = "close", !.conv = c, !.sender = u,
                                  !.tossId = a, !.opt = w,
                                  !.pc = IF w = NoOption THEN "force_read"
                                                         ELSE "exec_read"])
    /\ UNCHANGED <<store, wallets, monitored, transfers>>
  /\ UNCHANGED <<watcherVars, codec, retry, payout, msgLimit>>

\* executeToss: getToss
executeToss_read(x) ==
  /\ h[x].pc = "exec_read"
  /\ h' = [h EXCEPT ![x].toss = getToss(h[x].tossId), ![x].pc = "exec_begin"]
  /\ UNCHANGED <<store, wallets, monitored, client, transfers, msgs>>
  /\ UNCHANGED <<watcherVars, codec, retry, payout, msgLimit>>

\* executeToss: state validation, then IN_PROGRESS is saved
executeToss_begin(x) ==
  /\ h[x].pc = "exec_begin"
  /\ LET toss == h[x].toss
     IN IF toss.id = 0 \/ toss.status # WAITING_FOR_PLAYER
           \/ Len(toss.participants) < 1 \/ Len(toss.participantOptions) = 0
           \/ Len(optionsOf(toss)) < 1
        THEN /\ Finish(x, "close_error")
             /\ UNCHANGED store
        ELSE LET inProgress == [toss EXCEPT !.status = IN_PROGRESS]
                 matching   == matchingOption(optionsOf(toss), h[x].opt)
                 winners    == winnersOf(toss, matching)
             IN /\ store' = [store EXCEPT ![toss.id] = inProgress]
                /\ h' = [h EXCEPT
                     ![x].toss = IF matching = NoOption THEN inProgress
                                 ELSE [inProgress EXCEPT !.tossResult = matching],
                     ![x].todo = winners,
                     ![x].pc = IF matching = NoOption THEN "exec_cancel"
                               ELSE IF winners = <<>> THEN "exec_nowinners"
                               ELSE "exec_pay"]
  /\ UNCHANGED <<wallets, monitored, client, transfers, msgs>>
  /\ UNCHANGED <<watcherVars, codec, retry, payout, msgLimit>>

\* executeToss: the winning option matches no option
executeToss_cancel(x) ==
  /\ h[x].pc = "exec_cancel"
  /\ store' = [store EXCEPT ![h[x].tossId] =
                 [h[x].toss EXCEPT !.status = CANCELLED, !.paymentSuccess = FALSE]]
  /\ Finish(x, "close_error")
  /\ UNCHANGED <<wallets, monitored, client, transfers, msgs>>
  /\ UNCHANGED <<watcherVars, codec, retry, payout, msgLimit>>

\* executeToss: nobody chose the winning option
executeToss_nowinners(x) ==
  /\ h[x].pc = "exec_nowinners"
  /\ store' = [store EXCEPT ![h[x].tossId] =
                 [h[x].toss EXCEPT !.status = COMPLETED, !.paymentSuccess = TRUE]]
  /\ monitored' = monitored \ {h[x].tossId}
  /\ h' = [h EXCEPT ![x].pc = "clear_read", ![x].toss = NoToss, ![x].todo = <<>>]
  /\ UNCHANGED <<wallets, client, transfers, msgs>>
  /\ UNCHANGED <<watcherVars, codec, retry, payout, msgLimit>>

\* the prize loop without failedWinners.push for a transfer that failed
executeToss_transfer_dropsFailed(x) ==
  /\ h[x].pc = "exec_pay"
  /\ wallets' = wallets \cup {h[x].tossId}
  /\ IF ~client
     THEN /\ Finish(x, "close_error")
          /\ UNCHANGED transfers
     ELSE \E outcome \in TransferOutcomes :
            LET winner == Head(h[x].todo)
                rest   == Tail(h[x].todo)
            IN /\ transfers' = IF outcome = "ok"
                               THEN recordTransfer(h[x].tossId, winner)
                               ELSE transfers
               /\ h' = [h EXCEPT
                    ![x].succ   = IF outcome = "ok" THEN @ \cup {winner} ELSE @,
                    ![x].todo   = rest,
                    ![x].pc     = IF rest = <<>> THEN "exec_done" ELSE "exec_pay"]
  /\ UNCHANGED <<store, monitored, client, msgs>>
  /\ UNCHANGED <<watcherVars, codec, retry, payout, msgLimit>>

\* executeToss: one turn of the prize loop (address lookup and transfer)
executeToss_transfer(x) ==
  /\ h[x].pc = "exec_pay"
  /\ wallets' = wallets \cup {h[x].tossId}           \* walletService.getWallet
  /\ IF ~client
     THEN /\ Finish(x, "close_error")
          /\ UNCHANGED transfers
     ELSE \E outcome \in TransferOutcomes :
            LET winner == Head(h[x].todo)
                rest   == Tail(h[x].todo)
            IN /\ transfers' = IF outcome = "ok"
                               THEN recordTransfer(h[x].tossId, winner)
                               ELSE transfers
               /\ h' = [h EXCEPT
                    ![x].succ   = IF outcome = "ok" THEN @ \cup {winner} ELSE @,
                    ![x].failed = IF outcome = "ok" THEN @ ELSE Append(@, winner),
                    ![x].todo   = rest,
                    ![x].pc     = IF rest = <<>> THEN "exec_done" ELSE "exec_pay"]
  /\ UNCHANGED <<store, monitored, client, msgs>>
  /\ UNCHANGED <<watcherVars, codec, retry, payout, msgLimit>>

\* executeToss: walletService.getWallet throws before the prize loop (the
\* wallet provider cannot be reached); handleExplicitCommand catches the
\* error and replies with it, and the record stays as saved
executeToss_getWallet_throws(x) ==
  /\ h[x].pc = "exec_pay"
  /\ h[x].succ = {} /\ h[x].failed = <<>>
  /\ Finish(x, "close_error")
  /\ UNCHANGED <<store, wallets, monitored, client, transfers, msgs>>
  /\ UNCHANGED <<watcherVars, codec, retry, payout, msgLimit>>

\* executeToss: COMPLETED is saved, the wallet leaves the monitor
executeToss_done(x) ==
  /\ h[x].pc = "exec_done"
  /\ store' = [store EXCEPT ![h[x].tossId] =
                 [h[x].toss EXCEPT !.paymentSuccess = (h[x].succ # {}),
                                   !.status = COMPLETED,
                                   !.failedWinners =
                                      IF h[x].failed # <<>> THEN h[x].failed
                                      ELSE @]]
  /\ monitored' = monitored \ {h[x].tossId}
  /\ h' = [h EXCEPT ![x].pc = "clear_read", ![x].toss = NoToss,
                    ![x].succ = {}, ![x].failed = <<>>]
  /\ UNCHANGED <<wallets, client, transfers, msgs>>
  /\ UNCHANGED <<watcherVars, codec, retry, payout, msgLimit>>

\* forceCloseToss: getToss
forceCloseToss_read(x) ==
  /\ h[x].pc = "force_read"
  /\ h' = [h EXCEPT ![x].toss = getToss(h[x].tossId), ![x].pc = "force_begin"]
  /\ UNCHANGED <<store, wallets, monitored, client, transfers, msgs>>
  /\ UNCHANGED <<watcherVars, codec, retry, payout, msgLimit>>

\* forceCloseToss: IN_PROGRESS is saved, whatever the status read
forceCloseToss_begin(x) ==
  /\ h[x].pc = "force_begin"
  /\ LET toss == h[x].toss
     IN IF toss.id = 0
        THEN /\ Finish(x, "close_error")
             /\ UNCHANGED store
        ELSE LET inProgress == [toss EXCEPT !.status = IN_PROGRESS]
             IN /\ store' = [store EXCEPT ![toss.id] = inProgress]
                /\ h' = [h EXCEPT
                     ![x].toss = inProgress,
                     ![x].todo = toss.participants,
                     ![x].pc = IF toss.participants = <<>> THEN "force_empty"
                                                           ELSE "force_pay"]
  /\ UNCHANGED <<wallets, monitored, client, transfers, msgs>>
  /\ UNCHANGED <<watcherVars, codec, retry, payout, msgLimit>>

\* forceCloseToss: no participants; the toss is cancelled and returned, the
\* wallet stays in the monitor
forceCloseToss_empty(x) ==
  /\ h[x].pc = "force_empty"
  /\ store' = [store EXCEPT ![h[x].tossId] =
                 [h[x].toss EXCEPT !.status = CANCELLED, !.paymentSuccess = TRUE,
                                   !.tossResult = "FORCE_CLOSED"]]
  /\ h' = [h EXCEPT ![x].pc = "clear_read", ![x].toss = NoToss]
  /\ UNCHANGED <<wallets, monitored, client, transfers, msgs>>
  /\ UNCHANGED <<watcherVars, codec, retry, payout, msgLimit>>

\* the refund loop without failedRefunds.push for a refund that failed
forceCloseToss_transfer_dropsFailed(x) ==
  /\ h[x].pc = "force_pay"
  /\ wallets' = wallets \cup {h[x].tossId}
  /\ IF ~client
     THEN /\ Finish(x, "close_error")
          /\ UNCHANGED transfers
     ELSE \E outcome \in TransferOutcomes :
            LET participant == Head(h[x].todo)
                rest        == Tail(h[x].todo)
            IN /\ transfers' = IF outcome = "ok"
                               THEN recordTransfer(h[x].tossId, participant)
                               ELSE transfers
               /\ h' = [h EXCEPT
                    ![x].succ   = IF outcome = "ok" THEN @ \cup {participant} ELSE @,
                    ![x].todo   = rest,
                    ![x].pc     = IF rest = <<>> THEN "force_done" ELSE "force_pay"]
  /\ UNCHANGED <<store, monitored, client, msgs>>
  /\ UNCHANGED <<watcherVars, codec, retry, payout, msgLimit>>

\* forceCloseToss: one turn of the refund loop (address lookup and transfer)
forceCloseToss_transfer(x) ==
  /\ h[x].pc = "force_pay"
  /\ wallets' = wallets \cup {h[x].tossId}           \* walletService.getWallet
  /\ IF ~client
     THEN /\ Finish(x, "close_error")
          /\ UNCHANGED transfers
     ELSE \E outcome \in TransferOutcomes :
            LET participant == Head(h[x].todo)
                rest        == Tail(h[x].todo)
            IN /\ transfers' = IF outcome = "ok"
                               THEN recordTransfer(h[x].tossId, participant)
                               ELSE transfers
               /\ h' = [h EXCEPT
                    ![x].succ   = IF outcome = "ok" THEN @ \cup {participant} ELSE @,
                    ![x].failed = IF outcome = "ok" THEN @ ELSE Append(@, participant),
                    ![x].todo   = rest,
                    ![x].pc     = IF rest = <<>> THEN "force_done" ELSE "force_pay"]
  /\ UNCHANGED <<store, monitored, client, msgs>>
  /\ UNCHANGED <<watcherVars, codec, retry, payout, msgLimit>>

\* forceCloseToss: walletService.getWallet throws before the refund loop
forceCloseToss_getWallet_throws(x) ==
  /\ h[x].pc = "force_pay"
  /\ h[x].succ = {} /\ h[x].failed = <<>>
  /\ Finish(x, "close_error")
  /\ UNCHANGED <<store, wallets, monitored, client, transfers, msgs>>
  /\ UNCHANGED <<watcherVars, codec, retry, payout, msgLimit>>

\* forceCloseToss: CANCELLED is saved, the wallet leaves the monitor
forceCloseToss_done(x) ==
  /\ h[x].pc = "force_done"
  /\ store' = [store EXCEPT ![h[x].tossId] =
                 [h[x].toss EXCEPT !.paymentSuccess = TRUE,
                                   !.status = CANCELLED,
                                   !.tossResult = "FORCE_CLOSED",
                                   !.failedRefunds =
                                      IF h[x].failed # <<>> THEN h[x].failed
                                      ELSE @]]
  /\ monitored' = monitored \ {h[x].tossId}
  /\ h' = [h EXCEPT ![x].pc = "clear_read", ![x].toss = NoToss,
                    ![x].succ = {}, ![x].failed = <<>>]
  /\ UNCHANGED <<wallets, client, transfers, msgs>>
  /\ UNCHANGED <<watcherVars, codec, retry, payout, msgLimit>>

\* clearActiveTossForConversation: getActiveTossForConversation
clearActiveTossForConversation_read(x) ==
  /\ h[x].pc = "clear_read"
  /\ \E a \in getActiveTossForConversation(h[x].conv) :
       IF a = 0 THEN Finish(x, "closed")
       ELSE h' = [h EXCEPT ![x].toss = getToss(a), ![x].pc = "clear_save"]
  /\ UNCHANGED <<store, wallets, monitored, client, transfers, msgs>>
  /\ UNCHANGED <<watcherVars, codec, retry, payout, msgLimit>>

\* clearActiveTossForConversation: the toss found loses its conversationId
clearActiveTossForConversation(toss) == [toss EXCEPT !.conversationId = NoConv]

clearActiveTossForConversation_save(x) ==
  /\ h[x].pc = "clear_save"
  /\ store' = [store EXCEPT ![h[x].toss.id] =
                 clearActiveTossForConversation(h[x].toss)]
  /\ Finish(x, "closed")
  /\ UNCHANGED <<wallets, monitored, client, transfers, msgs>>
  /\ UNCHANGED <<watcherVars, codec, retry, payout, msgLimit>>

\* ---------------------------------------------------------------- refresh
\* floor((balance - stake * n) / stake), in minor units
expectedAdditionalParticipants(balance, toss) ==
  (balance - toss.tossAmount * Len(toss.participants)) \div toss.tossAmount

\* members.filter(m => !currentToss.participants.includes(m.inboxId))
potentialNewParticipants(toss) ==
  LET absent(m) == ~includes(toss.participants, m)
  IN SelectSeq(Members, absent)

Min(a, b) == IF a <= b THEN a ELSE b

\* handleExplicitCommand, case "refresh", and refreshTossTransactions up to
\* its loop: getToss, getWallet, checkBalance, the members to add
refreshTossTransactions(x) ==
  /\ Free(x)
  /\ \E c \in Convs, balance \in BalanceChoices :
   \E a \in getActiveTossForConversation(c) :
    /\ IF c \in Dms
       THEN Begin(x, Done("refresh", 0, "", "only_in_groups")) /\ UNCHANGED wallets
       ELSE IF a = 0
       THEN Begin(x, Done("refresh", 0, "", "no_active_toss")) /\ UNCHANGED wallets
       ELSE LET currentToss == getToss(a)
                n     == expectedAdditionalParticipants(balance, currentToss)
                new   == potentialNewParticipants(currentToss)
                count == Min(n, Len(new))
            IN /\ wallets' = wallets \cup {a}            \* getWallet
               /\ IF balance > currentToss.tossAmount * Len(currentToss.participants)
                     /\ n > 0 /\ count > 0
                  THEN Begin(x, [Idle EXCEPT
                         !.kind = "refresh", !.conv = c, !.tossId = a,
                         !.toss = currentToss, !.todo = SubSeq(new, 1, count),
                         !.amount = balance, !.pc = "refresh_add"])
                  ELSE Begin(x, [Done("refresh", a, "", "refreshed")
                                   EXCEPT !.amount = balance])
    /\ UNCHANGED <<store, monitored, transfers>>
  /\ UNCHANGED <<watcherVars, codec, retry, payout, msgLimit>>

\* refreshTossTransactions: one turn of the loop; the member is pushed with
\* the default option and the record is saved
refreshTossTransactions_add(x) ==
  /\ h[x].pc = "refresh_add"
  /\ LET currentToss   == h[x].toss
         member        == Head(h[x].todo)
         defaultOption == IF Len(currentToss.tossOptions) > 0
                          THEN currentToss.tossOptions[1] ELSE "heads"
         updated == [currentToss EXCEPT
                       !.participants = Append(@, member),
                       !.participantOptions =
                          Append(@, [inboxId |-> member, option |-> defaultOption])]
     IN /\ store' = [store EXCEPT ![currentToss.id] = updated]
        /\ IF Tail(h[x].todo) = <<>>
           THEN Finish(x, "refreshed")
           ELSE h' = [h EXCEPT ![x].toss = updated, ![x].todo = Tail(@)]
  /\ UNCHANGED <<wallets, monitored, client, transfers, msgs>>
  /\ UNCHANGED <<watcherVars, codec, retry, payout, msgLimit>>

\* ------------------------------------ joinGame and makePayment (public API)
\* joinGame: the player is pushed to participants only, with no option
joinGame_error(toss, player) ==
  IF toss.id = 0 THEN "Toss not found"
  ELSE IF ~acceptingPlayers(toss) THEN "Toss is not accepting players"
  ELSE IF includes(toss.participants, player) THEN "You are already in this toss"
  ELSE ""

joinGame(toss, player) ==
  [toss EXCEPT !.participants = Append(@, player),
               !.status = WAITING_FOR_PLAYER]

\* joinGame is called with a toss id and the sender; getToss
joinGame_read(x) ==
  /\ Free(x)
  /\ \E t \in TossIds, u \in Users :
       /\ Exists(t)
       /\ Begin(x, [Idle EXCEPT !.kind = "joinGame", !.sender = u, !.tossId = t,
                             !.toss = getToss(t), !.pc = "joingame_save"])
  /\ UNCHANGED <<store, wallets, monitored, transfers>>
  /\ UNCHANGED <<watcherVars, codec, retry, payout, msgLimit>>

joinGame_save(x) ==
  /\ h[x].pc = "joingame_save"
  /\ LET err == joinGame_error(h[x].toss, h[x].sender)
     IN IF err # ""
        THEN /\ Finish(x, err)
             /\ UNCHANGED store
        ELSE /\ store' = [store EXCEPT ![h[x].tossId] =
                            joinGame(h[x].toss, h[x].sender)]
             /\ Finish(x, "joinGame_ok")
  /\ UNCHANGED <<wallets, monitored, client, transfers, msgs>>
  /\ UNCHANGED <<watcherVars, codec, retry, payout, msgLimit>>

\* makePayment: the payer is pushed with the option given, unless already a
\* participant; neither the status nor the option is looked at
makePayment(toss, userId, chosenOption) ==
  IF includes(toss.participants, userId) THEN toss
  ELSE [toss EXCEPT
          !.participants = Append(@, userId),
          !.participantOptions = Append(@, [inboxId |-> userId,
                                            option |-> chosenOption])]

\* makePayment is called with a toss id, the payer and the option; getToss
makePayment_read(x) ==
  /\ Free(x)
  /\ \E t \in TossIds, u \in Users, o \in MetaOptions \ {NoOption} :
       /\ Exists(t)
       /\ Begin(x, [Idle EXCEPT !.kind = "makePayment", !.sender = u, !.tossId = t,
                             !.opt = o, !.toss = getToss(t),
                             !.pc = "makepayment_save"])
  /\ UNCHANGED <<store, wallets, monitored, transfers>>
  /\ UNCHANGED <<watcherVars, codec, retry, payout, msgLimit>>

makePayment_save(x) ==
  /\ h[x].pc = "makepayment_save"
  /\ IF h[x].toss.id = 0
     THEN /\ Finish(x, "Toss not found")
          /\ UNCHANGED store
     ELSE /\ IF includes(h[x].toss.participants, h[x].sender)
             THEN UNCHANGED store
             ELSE store' = [store EXCEPT ![h[x].tossId] =
                              makePayment(h[x].toss, h[x].sender, h[x].opt)]
          /\ Finish(x, "makePayment_ok")
  /\ UNCHANGED <<wallets, monitored, client, transfers, msgs>>
  /\ UNCHANGED <<watcherVars, codec, retry, payout, msgLimit>>

\* ------------------------------------------------------- watcher callback
\* findInboxIdForAddress: no reverse lookup exists; the result is always null
findInboxIdForAddress(address) == ""

\* findConversationForToss: the conversation the stored toss is bound to
findConversationForToss(t) == getToss(t).conversationId

\* processDetectedTransaction, for a transfer the monitor saw arrive at the
\* wallet of toss t: the toss is read, its conversation found, the
\* transaction verified, the option decoded from the amount, and the sender
\* looked up
processDetectedTransaction(x) ==
  /\ Free(x)
  /\ \E t \in monitored, from \in Users, chain \in ChainCases, m \in Payloads :
       LET toss      == getToss(t)
           txDetails == checkTransactionWithRetries(chain)
           option    == extractOptionFromTransferAmount(m.amount, toss)
           res == IF ~client THEN "no_client"
                  ELSE IF toss.id = 0 THEN "no_toss"
                  ELSE IF findConversationForToss(t) = NoConv
                       THEN "event_no_conversation"
                  ELSE IF ~txVerified(txDetails) THEN "event_unverified"
                  ELSE IF option = NoOption THEN "event_no_option"
                  ELSE IF findInboxIdForAddress(from) = ""
                       THEN "event_unidentified_sender"
                  ELSE "event_join"
       IN h' = [h EXCEPT ![x] =
                  IF res = "event_join"
                  THEN [Idle EXCEPT !.kind = "txref", !.tossId = t,
                                    !.conv = findConversationForToss(t),
                                    !.sender = findInboxIdForAddress(from),
                                    !.opt = option, !.txStatus = txDetails,
                                    !.toss = toss, !.pc = "add_save"]
                  ELSE Done("event", t, "", res)]
  /\ msgs' = msgs + 1
  /\ UNCHANGED <<store, wallets, monitored, client, transfers>>
  /\ UNCHANGED <<watcherVars, codec, retry, payout, msgLimit>>

\* the reply is sent; the handler has returned
Return(x) ==
  /\ h[x].pc = "done"
  /\ h' = [h EXCEPT ![x] = Idle]
  /\ UNCHANGED <<store, wallets, monitored, client, transfers, msgs>>
  /\ UNCHANGED <<watcherVars, codec, retry, payout, msgLimit>>

Next ==
  \E x \in Handlers :
    \/ Return(x)
    \/ handleCommand(x)
    \/ createGame_parse(x)
    \/ createGame_save(x)
    \/ createGameFromPrompt(x)
    \/ handleTransactionReference(x)
    \/ processTossJoin(x)
    \/ setActiveTossForConversation_save(x)
    \/ addPlayerToGame_read(x)
    \/ addPlayerToGame_save(x)
    \/ handleExplicitCommand_close(x)
    \/ executeToss_read(x)
    \/ executeToss_begin(x)
    \/ executeToss_cancel(x)
    \/ executeToss_nowinners(x)
    \/ executeToss_transfer(x)
    \/ executeToss_getWallet_throws(x)
    \/ executeToss_done(x)
    \/ forceCloseToss_read(x)
    \/ forceCloseToss_begin(x)
    \/ forceCloseToss_empty(x)
    \/ forceCloseToss_transfer(x)
    \/ forceCloseToss_getWallet_throws(x)
    \/ forceCloseToss_done(x)
    \/ clearActiveTossForConversation_read(x)
    \/ clearActiveTossForConversation_save(x)
    \/ refreshTossTransactions(x)
    \/ refreshTossTransactions_add(x)
    \/ joinGame_read(x)
    \/ joinGame_save(x)
    \/ makePayment_read(x)
    \/ makePayment_save(x)
    \/ processDetectedTransaction(x)

Spec == Init /\ [][Next]_vars

\* =============================================== the transaction monitor
\* The monitor on its own: its wallet map, its timer and its ticks, with the
\* chain as environment.  Wallets are named by the toss they belong to.
\* createGame adds the wallet of each new toss once, in the order of the toss
\* ids, and a Map iterates in insertion order, so a tick visits the wallets
\* in the order of their ids; a wallet added while a tick runs is visited by
\* that tick, a wallet deleted before its turn is skipped.

\* checkWalletTransactions: the look-back when a wallet has no checkpoint
lookbackBlocks == 100

\* wallet.lastCheckedBlock || currentBlock - 100n  (undefined and 0n alike)
fromBlock(lastChecked, currentBlock) ==
  IF lastChecked # 0 THEN lastChecked ELSE currentBlock - lookbackBlocks

\* publicClient.getLogs({to: wallet, fromBlock, toBlock}): the blocks, in
\* ascending order, of the Transfer logs to the wallet within the range
RECURSIVE logsFrom(_, _, _)
logsFrom(t, lo, hi) ==
  IF lo > hi THEN <<>>
  ELSE IF <<t, lo>> \in chainLogs THEN <<lo>> \o logsFrom(t, lo + 1, hi)
       ELSE logsFrom(t, lo + 1, hi)

\* getLogs answering for a range that ends one block below toBlock
getLogs_exclusiveTo(t, from, to) ==
  logsFrom(t, IF from < 1 THEN 1 ELSE from, to - 1)

getLogs(t, from, to) == logsFrom(t, IF from < 1 THEN 1 ELSE from, to)

\* outcome of a remote call, and of the callback
RpcOutcomes == {"ok", "error"}

\* who receives a Transfer in a new block: one wallet, or nobody (0)
TransferTargets == {0} \cup TossIds

\* for (const [, wallet] of this.monitoredWallets): the runner takes the next
\* wallet of the map, computes fromBlock and sends the log query, or the loop
\* and with it the tick ends.  The field err tells whether an error was caught
\* in the scan of the wallet before.
iterate(rec, map, lcb) ==
  LET rest == {t \in map : t > rec.cur}
  IN IF rest = {}
     THEN [NoRun EXCEPT !.kind = rec.kind, !.pc = "end", !.err = rec.err]
     ELSE LET t == CHOOSE t \in rest : \A u \in rest : t <= u
          IN [rec EXCEPT !.pc = "getLogs", !.cur = t,
                         !.from = fromBlock(lcb[t], rec.currentBlock),
                         !.todo = <<>>]

\* checkWalletTransactions, after the callbacks or with no log:
\* wallet.lastCheckedBlock = currentBlock
checkpointAfterScan(lcb, rec) == [lcb EXCEPT ![rec.cur] = rec.currentBlock]

RunnerFree(r) ==
  /\ run[r].pc = "idle"
  /\ r = "r2" => run["r1"].pc # "idle"

\* the chain grows by one block, with a Transfer to one wallet or none
mineBlock ==
  /\ head < MaxBlock
  /\ head' = head + 1
  /\ \E to \in TransferTargets :
       chainLogs' = IF to = 0 THEN chainLogs
                    ELSE chainLogs \cup {<<to, head + 1>>}
  /\ UNCHANGED <<monitored, lastCheckedBlock, addedAt, isMonitoring,
                 monitoringInterval, timers, starts, run>>
  /\ UNCHANGED <<engineVars, codec, retry, payout>>

\* addWalletToMonitor: getBlockNumber, then the map entry with that block as
\* lastCheckedBlock
addWalletToMonitor ==
  /\ \E t \in TossIds :
       /\ lastCheckedBlock[t] = 0
       /\ \A u \in TossIds : u < t => lastCheckedBlock[u] # 0
       /\ monitored' = monitored \cup {t}
       /\ lastCheckedBlock' = [lastCheckedBlock EXCEPT ![t] = head]
       /\ addedAt' = [addedAt EXCEPT ![t] = head]
  /\ UNCHANGED <<head, chainLogs, isMonitoring, monitoringInterval, timers,
                 starts, run>>
  /\ UNCHANGED <<engineVars, codec, retry, payout>>

\* removeWalletFromMonitor: the map entry is deleted
removeWalletFromMonitor ==
  /\ \E t \in monitored : monitored' = monitored \ {t}
  /\ UNCHANGED watcherVars
  /\ UNCHANGED <<engineVars, codec, retry, payout>>

\* startMonitoring up to its await: the flag is set and the initial check
\* begins (a call while isMonitoring is set returns at once)
startMonitoring(r) ==
  /\ RunnerFree(r)
  /\ starts < MaxStarts
  /\ ~ isMonitoring
  /\ isMonitoring' = TRUE
  /\ starts' = starts + 1
  /\ run' = [run EXCEPT ![r] = [NoRun EXCEPT !.kind = "start", !.pc = "check"]]
  /\ UNCHANGED <<monitored, head, chainLogs, lastCheckedBlock, addedAt,
                 monitoringInterval, timers>>
  /\ UNCHANGED <<engineVars, codec, retry, payout>>

\* startMonitoring after its initial check: setInterval
startMonitoring_setInterval(r) ==
  /\ run[r].kind = "start" /\ run[r].pc = "end"
  /\ monitoringInterval' = TRUE
  /\ timers' = timers + 1
  /\ run' = [run EXCEPT ![r] = NoRun]
  /\ UNCHANGED <<monitored, head, chainLogs, lastCheckedBlock, addedAt,
                 isMonitoring, starts>>
  /\ UNCHANGED <<engineVars, codec, retry, payout>>

\* stopMonitoring: the timer the field holds is cleared, the flag is reset
stopMonitoring ==
  /\ isMonitoring \/ monitoringInterval
  /\ IF monitoringInterval
     THEN timers' = timers - 1 /\ monitoringInterval' = FALSE
     ELSE UNCHANGED <<timers, monitoringInterval>>
  /\ isMonitoring' = FALSE
  /\ UNCHANGED <<monitored, head, chainLogs, lastCheckedBlock, addedAt,
                 starts, run>>
  /\ UNCHANGED <<engineVars, codec, retry, payout>>

\* an interval timer fires: a polling tick starts
intervalTick(r) ==
  /\ RunnerFree(r)
  /\ timers > 0
  /\ run' = [run EXCEPT ![r] = [NoRun EXCEPT !.kind = "timer", !.pc = "check"]]
  /\ UNCHANGED <<monitored, head, chainLogs, lastCheckedBlock, addedAt,
                 isMonitoring, monitoringInterval, timers, starts>>
  /\ UNCHANGED <<engineVars, codec, retry, payout>>

\* the timer's callback returns
intervalTick_return(r) ==
  /\ run[r].kind = "timer" /\ run[r].pc = "end"
  /\ run' = [run EXCEPT ![r] = NoRun]
  /\ UNCHANGED <<monitored, head, chainLogs, lastCheckedBlock, addedAt,
                 isMonitoring, monitoringInterval, timers, starts>>
  /\ UNCHANGED <<engineVars, codec, retry, payout>>

\* checkForNewTransactions: nothing to do with an empty map; else
\* getBlockNumber, whose failure ends the tick, and the first wallet
checkForNewTransactions(r, outcome) ==
  /\ run[r].pc = "check"
  /\ run' = [run EXCEPT ![r] =
       IF monitored = {} \/ outcome = "error"
       THEN [run[r] EXCEPT !.pc = "end", !.err = (monitored # {})]
       ELSE iterate([run[r] EXCEPT !.currentBlock = head], monitored,
                    lastCheckedBlock)]
  /\ UNCHANGED <<monitored, head, chainLogs, lastCheckedBlock, addedAt,
                 isMonitoring, monitoringInterval, timers, starts>>
  /\ UNCHANGED <<engineVars, codec, retry, payout>>

\* checkWalletTransactions: the answer to the log query.  A failure is caught
\* and leaves the checkpoint; with no log the checkpoint becomes
\* currentBlock; else the callback is called with the first log
checkWalletTransactions(r, outcome) ==
  /\ run[r].pc = "getLogs"
  /\ LET logs == getLogs(run[r].cur, run[r].from + 1, run[r].currentBlock)
     IN IF outcome = "error"
        THEN /\ run' = [run EXCEPT ![r] =
                          iterate([run[r] EXCEPT !.err = TRUE], monitored,
                                  lastCheckedBlock)]
             /\ UNCHANGED lastCheckedBlock
        ELSE IF logs = <<>>
        THEN /\ lastCheckedBlock' = checkpointAfterScan(lastCheckedBlock, run[r])
             /\ run' = [run EXCEPT ![r] =
                          iterate([run[r] EXCEPT !.err = FALSE], monitored,
                                  lastCheckedBlock')]
        ELSE /\ run' = [run EXCEPT ![r].pc = "callback", ![r].todo = logs,
                                   ![r].err = FALSE]
             /\ UNCHANGED lastCheckedBlock
  /\ UNCHANGED <<monitored, head, chainLogs, addedAt, isMonitoring,
                 monitoringInterval, timers, starts>>
  /\ UNCHANGED <<engineVars, codec, retry, payout>>

\* checkWalletTransactions: the callback called with the log Head(todo)
\* returns, or its error is caught and logged; the callback is called with
\* the next log, or after the last wallet.lastCheckedBlock = currentBlock
\* and the next wallet is taken
onTransactionCallback(r, outcome) ==
  /\ run[r].pc = "callback"
  /\ IF Tail(run[r].todo) # <<>>
     THEN /\ run' = [run EXCEPT ![r].todo = Tail(@),
                                ![r].err  = @ \/ outcome = "error"]
          /\ UNCHANGED lastCheckedBlock
     ELSE /\ lastCheckedBlock' = checkpointAfterScan(lastCheckedBlock, run[r])
          /\ run' = [run EXCEPT ![r] =
                       iterate([run[r] EXCEPT !.err = @ \/ outcome = "error"],
                               monitored, lastCheckedBlock')]
  /\ UNCHANGED <<monitored, head, chainLogs, addedAt, isMonitoring,
                 monitoringInterval, timers, starts>>
  /\ UNCHANGED <<engineVars, codec, retry, payout>>

WatcherInit ==
  /\ store = [t \in TossIds |-> NoToss]
  /\ wallets = {}
  /\ monitored = {}
  /\ client = FALSE
  /\ h = [x \in Handlers |-> Idle]
  /\ transfers = [t \in TossIds |-> [u \in Users |-> 0]]
  /\ msgs = 0
  /\ msgLimit = MaxMsgs
  /\ MonitorInit
  /\ codec = NoCodec
  /\ retry = NoRetry
  /\ payout = NoPayout

\* the steps of a runner: startMonitoring, the timer and a tick
runnerStep(r) ==
  \/ startMonitoring(r)
  \/ startMonitoring_setInterval(r)
  \/ intervalTick(r)
  \/ intervalTick_return(r)
  \/ \E outcome \in RpcOutcomes :
       \/ checkForNewTransactions(r, outcome)
       \/ checkWalletTransactions(r, outcome)
       \/ onTransactionCallback(r, outcome)

\* The monitor as the bot runs it: startMonitoring is called once, by the
\* TossManager constructor, and stopMonitoring has no caller; a timer tick
\* starts whether or not the tick before it has ended.
WatcherNext ==
  \/ mineBlock
  \/ addWalletToMonitor
  \/ removeWalletFromMonitor
  \/ \E r \in Runners : runnerStep(r)

WatcherSpec == WatcherInit /\ [][WatcherNext]_vars

\* Scheduling: a timer that is set fires, a call that was sent is answered
\* and a callback returns; getBlockNumber and the log query of each monitored
\* wallet do not fail for ever.
WatcherFairness ==
  /\ \A r \in Runners : WF_vars(runnerStep(r))
  /\ SF_vars(\E r \in Runners : checkForNewTransactions(r, "ok"))
  /\ \A t \in TossIds :
       SF_vars(\E r \in Runners :
                 run[r].cur = t /\ checkWalletTransactions(r, "ok"))

\* The monitor while no toss ends: wallets are added and none is removed
PollingNext ==
  \/ mineBlock
  \/ addWalletToMonitor
  \/ \E r \in Runners : runnerStep(r)

WatcherFairSpec == WatcherInit /\ [][PollingNext]_vars /\ WatcherFairness

\* The monitor with its whole interface: startMonitoring and stopMonitoring
\* called at any time, one tick at a time.
LifecycleNext ==
  \/ mineBlock
  \/ addWalletToMonitor
  \/ removeWalletFromMonitor
  \/ stopMonitoring
  \/ runnerStep("r1")

LifecycleSpec == WatcherInit /\ [][LifecycleNext]_vars

\* ------------------------------------------------------------ amount codec
\* The join button (createJoinTossWalletSendCalls) writes the chosen option
\* into the last digit of the transfer amount; extractOptionFromTransferAmount
\* reads it back from the amount seen on chain.  A stake is written here by
\* its exact value in minor units (a decimal string with up to six
\* fractional digits names exactly one such value).

\* the stakes taken: around the smallest stake, a round stake, two stakes
\* whose binary floating-point product falls below the integer, and the
\* largest stakes, each with every last digit up to MaxLastDigit
MaxLastDigit == 9
StakeBases   == {0, 100000, 2010000, 4100000, 9999990}
Stakes ==
  {b + d : b \in StakeBases, d \in 0..MaxLastDigit}
    \cap (1..(MAX_USDC_AMOUNT * MinorPerUnit))

OptionIndexes == {0, 1}

\* the stakes of StakeBases (with last digits 0..10) for which the IEEE-754
\* double product parseFloat(tossAmount) * Math.pow(10, 6) lies below the
\* exact value: "2.01" gives 2009999.9999999998, "4.1" gives
\* 4099999.9999999995, and so on
FloatShortfall == {2010000, 2010007, 2010010, 4100000, 4100006, 4100007}

\* Math.floor(parseFloat(tossAmount) * Math.pow(10, 6))
amountInDecimals(tossAmount) ==
  IF tossAmount \in FloatShortfall THEN tossAmount - 1 ELSE tossAmount

\* tossOptions.findIndex(opt => opt.toLowerCase() === option.toLowerCase()),
\* counted from 0; -1 when there is none
findIndex(options, option) ==
  LET hits == {k \in DOMAIN options :
                 toLowerCase(options[k]) = toLowerCase(option)}
  IN IF hits = {} THEN -1
     ELSE (CHOOSE k \in hits : \A j \in hits : k <= j) - 1

\* the amount createJoinTossWalletSendCalls puts on the button
joinAmount(toss, tossAmount, option) ==
  LET base        == amountInDecimals(tossAmount)
      isFirstOption ==
        /\ Len(toss.tossOptions) > 0
        /\ toLowerCase(toss.tossOptions[1]) = toLowerCase(option)
      optionIndex == findIndex(toss.tossOptions, option)
  IN IF toss.id # 0 /\ option # NoOption
     THEN IF optionIndex # -1 THEN base + optionIndex + 1 ELSE base
     ELSE IF isFirstOption THEN base + 1 ELSE base

\* sendJoinOptions: one button per option of the toss
createJoinTossWalletSendCalls ==
  /\ codec.pc = "encode"
  /\ LET toss   == getToss(1)
         option == toss.tossOptions[codec.index + 1]
     IN codec' = [codec EXCEPT
                    !.pc = "decode",
                    !.amount = joinAmount(toss, toss.tossAmount, option)]
  /\ UNCHANGED <<engineVars, monitored, watcherVars, retry, payout>>

\* the transfer of the button's amount is seen and its option read back
decodeTransferAmount ==
  /\ codec.pc = "decode"
  /\ codec' = [codec EXCEPT
                 !.pc = "done",
                 !.option = extractOptionFromTransferAmount(codec.amount,
                                                            getToss(1))]
  /\ UNCHANGED <<engineVars, monitored, watcherVars, retry, payout>>

\* a toss with a stake of Stakes, and the option whose button is pressed
CodecInit ==
  /\ \E stake \in Stakes :
       store = [t \in TossIds |->
                  IF t = 1 THEN [StoredToss EXCEPT !.tossAmount = stake]
                  ELSE NoToss]
  /\ wallets = {1}
  /\ monitored = {}
  /\ client = FALSE
  /\ h = [x \in Handlers |-> Idle]
  /\ transfers = [t \in TossIds |-> [u \in Users |-> 0]]
  /\ msgs = 0
  /\ msgLimit = MaxMsgs
  /\ MonitorInit
  /\ retry = NoRetry
  /\ payout = NoPayout
  /\ \E i \in OptionIndexes :
       codec = [NoCodec EXCEPT !.pc = "encode", !.index = i,
                               !.stake = store[1].tossAmount]

CodecNext ==
  \/ createJoinTossWalletSendCalls
  \/ decodeTransferAmount

CodecSpec == CodecInit /\ [][CodecNext]_vars

\* ---------------------------------------------------------------- decoder
\* extractOptionFromTransferAmount on any amount received: the amounts taken
\* are those around 0 and around a stake of 0.1, with every last digit, and
\* the target toss is missing, or has no option, two options or three
AmountBases     == {0, 100000}
ReceivedAmounts == {b + d : b \in AmountBases, d \in 0..MaxLastDigit}

DecoderTosses ==
  { NoToss, StoredToss,
    [StoredToss EXCEPT !.tossOptions = <<>>],
    [StoredToss EXCEPT !.tossOptions = <<"Yes", "No", "Draw">>] }

DecoderInit ==
  /\ \E toss \in DecoderTosses :
       store = [t \in TossIds |-> IF t = 1 THEN toss ELSE NoToss]
  /\ wallets = {t \in TossIds : store[t].id # 0}
  /\ monitored = {}
  /\ client = FALSE
  /\ h = [x \in Handlers |-> Idle]
  /\ transfers = [t \in TossIds |-> [u \in Users |-> 0]]
  /\ msgs = 0
  /\ msgLimit = MaxMsgs
  /\ MonitorInit
  /\ retry = NoRetry
  /\ payout = NoPayout
  /\ \E a \in ReceivedAmounts :
       codec = [NoCodec EXCEPT !.pc = "decode", !.amount = a]

DecoderNext == decodeTransferAmount

DecoderSpec == DecoderInit /\ [][DecoderNext]_vars

\* ------------------------------------------------- joins, refresh and close
\* The engine on a group whose members only join, refresh and close the
\* stored toss, for one message more than Spec handles.
CloseInit ==
  /\ \E toss \in {StoredToss, StoredTossJoined} :
       store = [t \in TossIds |-> IF t = 1 THEN toss ELSE NoToss]
  /\ wallets = {t \in TossIds : store[t].id # 0}
  /\ monitored = {}
  /\ client = FALSE
  /\ h = [x \in Handlers |-> Idle]
  /\ transfers = [t \in TossIds |-> [u \in Users |-> 0]]
  /\ msgs = 0
  /\ msgLimit = MaxCloseMsgs
  /\ MonitorInit
  /\ codec = NoCodec
  /\ retry = NoRetry
  /\ payout = NoPayout

CloseNext ==
  \E x \in Handlers :
    \/ Return(x)
    \/ handleTransactionReference(x)
    \/ processTossJoin(x)
    \/ setActiveTossForConversation_save(x)
    \/ addPlayerToGame_read(x)
    \/ addPlayerToGame_save(x)
    \/ handleExplicitCommand_close(x)
    \/ executeToss_read(x)
    \/ executeToss_begin(x)
    \/ executeToss_cancel(x)
    \/ executeToss_nowinners(x)
    \/ executeToss_transfer(x)
    \/ executeToss_getWallet_throws(x)
    \/ executeToss_done(x)
    \/ forceCloseToss_read(x)
    \/ forceCloseToss_begin(x)
    \/ forceCloseToss_empty(x)
    \/ forceCloseToss_transfer(x)
    \/ forceCloseToss_getWallet_throws(x)
    \/ forceCloseToss_done(x)
    \/ clearActiveTossForConversation_read(x)
    \/ clearActiveTossForConversation_save(x)
    \/ refreshTossTransactions(x)
    \/ refreshTossTransactions_add(x)

CloseSpec == CloseInit /\ [][CloseNext]_vars

\* ------------------------------------------------- creating and force-closing
\* The engine on an empty .data directory, with members who only create
\* tosses and close them before anybody has joined.
CreateCloseInit ==
  /\ store = [t \in TossIds |-> NoToss]
  /\ wallets = {}
  /\ monitored = {}
  /\ client = FALSE
  /\ h = [x \in Handlers |-> Idle]
  /\ transfers = [t \in TossIds |-> [u \in Users |-> 0]]
  /\ msgs = 0
  /\ msgLimit = MaxCloseMsgs
  /\ MonitorInit
  /\ codec = NoCodec
  /\ retry = NoRetry
  /\ payout = NoPayout

CreateCloseNext ==
  \E x \in Handlers :
    \/ Return(x)
    \/ handleCommand(x)
    \/ createGame_parse(x)
    \/ createGame_save(x)
    \/ createGameFromPrompt(x)
    \/ handleExplicitCommand_close(x)
    \/ forceCloseToss_read(x)
    \/ forceCloseToss_begin(x)
    \/ forceCloseToss_empty(x)
    \/ clearActiveTossForConversation_read(x)
    \/ clearActiveTossForConversation_save(x)

CreateCloseSpec == CreateCloseInit /\ [][CreateCloseNext]_vars

\* ------------------------------------------------------- the stake of a toss
\* The amount text of a toss prompt, as the regular expression or the
\* language model extracted it; "" stands for a prompt without an amount.
AmountTexts ==
  {"", "0", "0.000001", "0.1", "10", "10.000001", "11", "-1", "abc"}

DEFAULT_AMOUNT == "0.1"

\* a JavaScript number: NaN, or a decimal amount held in minor units
NaN    == [nan |-> TRUE, v |-> 0]
Num(v) == [nan |-> FALSE, v |-> v]

\* parseFloat on the amount texts
parseFloat(text) ==
  CASE text = "0"         -> Num(0)
    [] text = "0.000001"  -> Num(1)
    [] text = "0.1"       -> Num(100000)
    [] text = "10"        -> Num(10 * MinorPerUnit)
    [] text = "10.000001" -> Num(10 * MinorPerUnit + 1)
    [] text = "11"        -> Num(11 * MinorPerUnit)
    [] text = "-1"        -> Num(0 - MinorPerUnit)
    [] OTHER              -> NaN

isNaN(n) == n.nan

\* n > MAX_USDC_AMOUNT; a comparison with NaN is false
exceedsMaximum(n) == ~ n.nan /\ n.v > MAX_USDC_AMOUNT * MinorPerUnit

\* parseNaturalLanguageToss: the amount it returns for the amount text found
parseNaturalLanguageToss(text) ==
  LET amount == IF text = "" THEN DEFAULT_AMOUNT ELSE text
  IN IF exceedsMaximum(parseFloat(amount)) THEN "10" ELSE amount

\* createGameFromPrompt: the prompt is parsed; createGame: the amount is
\* validated and getLastIdToss gives the new id
createGame_validate(x) ==
  /\ h[x].pc = "create_parse"
  /\ \/ Finish(x, "parse_error")
     \/ \E text \in AmountTexts :
          LET tossAmount == parseNaturalLanguageToss(text)
              amount     == parseFloat(tossAmount)
          IN IF isNaN(amount)
             THEN Finish(x, "invalid_amount")
             ELSE IF exceedsMaximum(amount)
             THEN Finish(x, "amount_too_large")
             ELSE h' = [h EXCEPT ![x].pc = "create_save",
                                 ![x].tossId = getLastIdToss + 1,
                                 ![x].amount = amount.v]
  /\ UNCHANGED <<store, wallets, monitored, client, transfers, msgs>>
  /\ UNCHANGED <<watcherVars, codec, retry, payout, msgLimit>>

StakeNext ==
  \E x \in Handlers :
    \/ Return(x)
    \/ handleCommand(x)
    \/ createGame_validate(x)
    \/ createGame_save(x)
    \/ createGameFromPrompt(x)

StakeSpec == Init /\ [][StakeNext]_vars

\* ------------------------------------------------- a store whose writes fail
\* FileStorage.saveToFile catches the error of fs.writeFile and returns
\* false; saveData hands that on, and no caller in TossManager looks at it.
\* A save that fails is therefore a step that leaves the file as it was and
\* goes on like the save that succeeded.

\* createGame: walletService.createWallet(tossId); the first save fails
createGame_saveFails(x) ==
  /\ h[x].pc = "create_save"
  /\ LET t   == h[x].tossId
         rec == createGame(t, h[x].sender, h[x].amount, h[x].conv)
     IN /\ wallets' = wallets \cup {t}
        /\ h' = [h EXCEPT ![x].pc = "create_options", ![x].toss = rec,
                          ![x].amount = 0]
  /\ UNCHANGED <<store, monitored, client, transfers, msgs>>
  /\ UNCHANGED <<watcherVars, codec, retry, payout, msgLimit>>

\* createGameFromPrompt: the save of topic and options fails; handleCommand
\* sends the confirmation
createGameFromPrompt_saveFails(x) ==
  /\ h[x].pc = "create_options"
  /\ monitored' = monitored \cup {h[x].tossId}
  /\ Finish(x, "created")
  /\ UNCHANGED <<store, wallets, client, transfers, msgs>>
  /\ UNCHANGED <<watcherVars, codec, retry, payout, msgLimit>>

\* addPlayerToGame: the checks and the push; the save fails;
\* processTossJoin sends "Successfully joined", or the error
addPlayerToGame_saveFails(x) ==
  /\ h[x].pc = "add_save"
  /\ LET err == addPlayerToGame_error(h[x].toss, h[x].sender, h[x].opt, TRUE)
     IN IF err # ""
        THEN Finish(x, err)
        ELSE h' = [h EXCEPT ![x] = [Done("txref", h[x].tossId, h[x].sender, "joined")
                                      EXCEPT !.txStatus = h[x].txStatus]]
  /\ UNCHANGED <<store, wallets, monitored, client, transfers, msgs>>
  /\ UNCHANGED <<watcherVars, codec, retry, payout, msgLimit>>

StoreFailNext ==
  \E x \in Handlers :
    \/ Return(x)
    \/ handleCommand(x)
    \/ createGame_parse(x)
    \/ createGame_save(x)
    \/ createGame_saveFails(x)
    \/ createGameFromPrompt(x)
    \/ createGameFromPrompt_saveFails(x)
    \/ handleTransactionReference(x)
    \/ processTossJoin(x)
    \/ setActiveTossForConversation_save(x)
    \/ addPlayerToGame_read(x)
    \/ addPlayerToGame_save(x)
    \/ addPlayerToGame_saveFails(x)

StoreFailSpec == Init /\ [][StoreFailNext]_vars

\* ------------------------------------------- the waits of one verification
\* checkTransactionWithRetries(txHash) with its default arguments.  Time is
\* counted in quarters of a millisecond, which keeps every delay of the
\* backoff a whole number.
TicksPerMs   == 4
initialDelay == 5000

\* currentDelay * backoffFactor, with backoffFactor = 1.5
backoff(delay) == (delay * 3) \div 2

\* The chain as the call finds it: the receipt can be fetched from attempt
\* minedAt on (never, when minedAt > maxRetries) and then reports status.
RetryInit ==
  /\ store = [t \in TossIds |-> NoToss]
  /\ wallets = {}
  /\ monitored = {}
  /\ client = FALSE
  /\ h = [x \in Handlers |-> Idle]
  /\ transfers = [t \in TossIds |-> [u \in Users |-> 0]]
  /\ msgs = 0
  /\ msgLimit = MaxMsgs
  /\ MonitorInit
  /\ codec = NoCodec
  /\ payout = NoPayout
  /\ \E m \in 0..(maxRetries + 1), st \in {"success", "reverted"} :
       retry = [NoRetry EXCEPT !.pc = "wait", !.minedAt = m, !.status = st,
                               !.currentDelay = initialDelay * TicksPerMs]

\* the sleep before the first check
checkTransactionWithRetries_wait ==
  /\ retry.pc = "wait"
  /\ retry' = [retry EXCEPT !.waited = @ + retry.currentDelay,
                            !.pc = "attempt"]
  /\ UNCHANGED <<engineVars, monitored, watcherVars, codec, payout>>

\* one turn of the loop up to its sleep: verifyTransaction, and the return
\* of the details found, or of null after the last attempt
checkTransactionWithRetries_attempt ==
  /\ retry.pc = "attempt"
  /\ LET txDetails == verifyTransaction(retry, retry.attempt)
     IN retry' = [retry EXCEPT
          !.calls  = @ + 1,
          !.result = IF txDetails # "null" THEN txDetails
                     ELSE IF retry.attempt = maxRetries THEN "null" ELSE @,
          !.pc     = IF txDetails # "null" \/ retry.attempt = maxRetries
                     THEN "done" ELSE "sleep"]
  /\ UNCHANGED <<engineVars, monitored, watcherVars, codec, payout>>

\* the sleep after an attempt that found nothing; the delay grows
checkTransactionWithRetries_sleep ==
  /\ retry.pc = "sleep"
  /\ retry' = [retry EXCEPT !.waited = @ + retry.currentDelay,
                            !.currentDelay = backoff(@),
                            !.attempt = @ + 1,
                            !.pc = "attempt"]
  /\ UNCHANGED <<engineVars, monitored, watcherVars, codec, payout>>

RetryNext ==
  \/ checkTransactionWithRetries_wait
  \/ checkTransactionWithRetries_attempt
  \/ checkTransactionWithRetries_sleep

RetrySpec == RetryInit /\ [][RetryNext]_vars

\* ------------------------------------------- transaction references by hash
\* The transactions on the chain that the messages can refer to, by hash:
\* the escrow wallet paid (as the toss id), the amount moved in minor units
\* and the status of the receipt.  0xa pays the stake of toss 1 with the tag
\* of option 1, 0xb pays 11 minor units with the same tag, 0xc pays the
\* stake with the tag of option 2, 0xd reverted.
TxHashes == {"0xa", "0xb", "0xc", "0xd"}

ChainTx(txHash) ==
  IF txHash = "0xa"
  THEN [minedAt |-> 0, status |-> "success",  to |-> 1, amount |-> 100001]
  ELSE IF txHash = "0xb"
  THEN [minedAt |-> 0, status |-> "success",  to |-> 1, amount |-> 11]
  ELSE IF txHash = "0xc"
  THEN [minedAt |-> 0, status |-> "success",  to |-> 1, amount |-> 100002]
  ELSE [minedAt |-> 0, status |-> "reverted", to |-> 1, amount |-> 100001]

\* the option strings a transaction-reference message carries in its metadata
Metadata ==
  { [selectedOption |-> NoOption, option |-> NoOption],
    [selectedOption |-> "yes",    option |-> NoOption] }

\* handleTransactionReference, as above, with the hash the message refers to:
\* the details are those of the transaction with that hash
handleTransactionReference_txHash(x) ==
  /\ Free(x)
  /\ \E txHash \in TxHashes :
       LET chain     == ChainTx(txHash)
           txDetails == checkTransactionWithRetries(chain)
       IN IF ~txVerified(txDetails)
          THEN Begin(x, [Done("txref", 0, "", IF txDetails = "null"
                                              THEN "unverified" ELSE "failed_tx")
                           EXCEPT !.txStatus = txDetails, !.txHash = txHash])
          ELSE \E c \in Convs, u \in Users, m \in Metadata :
                 LET tossId == extractTossData(chain.to)
                     sel    == extractSelectedOption(m)
                 IN IF tossId = 0
                    THEN Begin(x, [Done("txref", 0, "", "not_a_toss_wallet")
                                     EXCEPT !.txStatus = txDetails,
                                            !.txHash = txHash])
                    ELSE Begin(x, [Idle EXCEPT
                           !.kind = "txref", !.conv = c, !.sender = u,
                           !.tossId = tossId,
                           !.opt = IF sel # NoOption THEN sel
                                   ELSE extractOptionFromTransferAmount(
                                          chain.amount, getToss(tossId)),
                           !.txStatus = txDetails,
                           !.txHash = txHash,
                           !.amount = chain.amount,
                           !.pc = "tx_active"])
  /\ UNCHANGED <<store, wallets, monitored, transfers>>
  /\ UNCHANGED <<watcherVars, codec, retry, payout, msgLimit>>

TxRefNext ==
  \E x \in Handlers :
    \/ Return(x)
    \/ handleTransactionReference_txHash(x)
    \/ processTossJoin(x)
    \/ setActiveTossForConversation_save(x)
    \/ addPlayerToGame_read(x)
    \/ addPlayerToGame_save(x)

TxRefSpec == Init /\ [][TxRefNext]_vars

\* ------------------------------------------------------ the prize of a close
\* executeToss computes totalPot = parseFloat(tossAmount) * participants.length
\* and prizePerWinner = totalPot / winners.length, and hands prizePerWinner to
\* walletService.transfer, which refuses an amount above maxTransferAmount.
\* Amounts are in minor units; the prize is kept as the pair totalPot, winners
\* and compared as a fraction, so that no rounding enters the comparison.
MaxPlayers        == 12
maxTransferAmount == 100

\* stakes that createGame accepts: above 0, at most MAX_USDC_AMOUNT
PrizeStakes == {100000, 1000000, 5000000, MAX_USDC_AMOUNT * MinorPerUnit}

PayoutInit ==
  /\ store = [t \in TossIds |-> NoToss]
  /\ wallets = {}
  /\ monitored = {}
  /\ client = FALSE
  /\ h = [x \in Handlers |-> Idle]
  /\ transfers = [t \in TossIds |-> [u \in Users |-> 0]]
  /\ msgs = 0
  /\ msgLimit = MaxMsgs
  /\ MonitorInit
  /\ codec = NoCodec
  /\ retry = NoRetry
  /\ \E s \in PrizeStakes, n \in 1..MaxPlayers :
      \E w \in 1..n :
       payout = [NoPayout EXCEPT !.pc = "prize", !.tossAmount = s,
                                 !.participants = n, !.winners = w]

\* amount > this.maxTransferAmount, for amount = totalPot / winners
exceedsTransferLimit(totalPot, winners) ==
  totalPot > maxTransferAmount * MinorPerUnit * winners

\* executeToss: totalPot and prizePerWinner
executeToss_prize ==
  /\ payout.pc = "prize"
  /\ payout' = [payout EXCEPT
       !.totalPot = payout.tossAmount * payout.participants,
       !.pc = "transfer"]
  /\ UNCHANGED <<engineVars, monitored, watcherVars, codec, retry>>

\* WalletService.transfer: the check of the amount against the limit; the
\* transfer is refused, or goes on to the wallet and balance checks
transfer_validate ==
  /\ payout.pc = "transfer"
  /\ payout' = [payout EXCEPT
       !.transfer = IF exceedsTransferLimit(payout.totalPot, payout.winners)
                    THEN "exceeds_maximum" ELSE "accepted",
       !.pc = "done"]
  /\ UNCHANGED <<engineVars, monitored, watcherVars, codec, retry>>

PayoutNext ==
  \/ executeToss_prize
  \/ transfer_validate

PayoutSpec == PayoutInit /\ [][PayoutNext]_vars

\* ================================================================== claims

\* C1: for each conversation id, at most one toss whose status is not
\* COMPLETED or CANCELLED carries that conversation id, in every reachable
\* state and under any interleaving of the message handlers.
C1_SingleActiveTossPerConversation ==
  \A t1, t2 \in TossIds :
    ( /\ Exists(t1) /\ Exists(t2)
      /\ store[t1].conversationId # NoConv
      /\ store[t1].conversationId = store[t2].conversationId
      /\ store[t1].status \notin Terminal
      /\ store[t2].status \notin Terminal ) => t1 = t2

\* C2: once the persisted status of a toss is COMPLETED or CANCELLED, no
\* later step changes any field of its persisted record.
C2_TerminalTossFrozen ==
  [][\A t \in TossIds : store[t].status \in Terminal => store'[t] = store[t]]_vars

\* C3: every change of a persisted status follows an edge of the lifecycle
\* table: creation gives CREATED; CREATED or WAITING_FOR_PLAYER go to
\* WAITING_FOR_PLAYER or to IN_PROGRESS; IN_PROGRESS goes to COMPLETED or
\* CANCELLED.  In particular IN_PROGRESS is never replaced by CREATED or
\* WAITING_FOR_PLAYER.
C3_StatusFollowsLifecycle ==
  [][\A t \in TossIds :
       LET from == store[t].status
           to   == store'[t].status
       IN to # from =>
            \/ from = "NONE" /\ to = CREATED
            \/ from \in {CREATED, WAITING_FOR_PLAYER}
                 /\ to \in {WAITING_FOR_PLAYER, IN_PROGRESS}
            \/ from = IN_PROGRESS /\ to \in Terminal]_vars

\* C4: for any toss and any interleaving of close and force-close commands,
\* each participant receives at most one outbound transfer (payout or refund)
\* from the escrow wallet of that toss.
C4_AtMostOneTransferPerParticipant ==
  \A t \in TossIds, u \in Users : transfers[t][u] <= 1

\* C5: no lost update: when two joins of distinct users to the same toss have
\* both reported success, both users are in its persisted participants list.
C5_NoLostJoin ==
  \A x, y \in Handlers :
    ( /\ x # y
      /\ h[x].pc = "done" /\ h[x].result = "joined"
      /\ h[y].pc = "done" /\ h[y].result = "joined"
      /\ h[x].tossId = h[y].tossId
      /\ h[x].sender # h[y].sender )
    => {h[x].sender, h[y].sender} \subseteq Range(store[h[x].tossId].participants)

\* C6: once IN_PROGRESS has been persisted for a toss, no participant is added
\* to its persisted record.
C6_NoParticipantAddedInProgress ==
  [][\A t \in TossIds :
       store[t].status = IN_PROGRESS =>
         Range(store'[t].participants) \subseteq Range(store[t].participants)]_vars

\* C7: for any sequence of deliveries, each user identity appears at most once
\* in the participants list of a toss.
C7_ParticipantsUnique ==
  \A t \in TossIds :
    \A i, j \in DOMAIN store[t].participants :
      store[t].participants[i] = store[t].participants[j] => i = j

\* C7 witness: a transaction reference of a user is delivered twice; one
\* delivery has joined the toss, the other was turned down, and the user is
\* in the participants list once.
C7_DuplicateDeliveryRejected ==
  \E x, y \in Handlers :
    /\ h[x].pc = "done" /\ h[x].result = "joined"
    /\ h[y].pc = "done" /\ h[y].kind = "txref"
    /\ h[y].result = "You are already in this toss"
    /\ Cardinality({i \in DOMAIN store[h[x].tossId].participants :
                      store[h[x].tossId].participants[i] = h[x].sender}) = 1

\* C8: verification is fail-closed: a step of the transaction-reference
\* handler changes the toss store only if the verification returned the
\* transaction with status success; a handler whose transaction is missing or
\* failed after the retries has already ended.
C8_VerificationFailClosed ==
  [][\A x \in Handlers :
       /\ (h[x].kind = "txref" /\ h'[x] # h[x] /\ store' # store)
            => h[x].txStatus = "success"
       /\ (h'[x].kind = "txref" /\ h'[x].txStatus # "success")
            => (h'[x].pc = "done" /\ (h'[x] # h[x] => store' = store))]_vars

\* C8 witness: one reference was turned down because its transaction failed
\* on chain while another, verified with status success, has joined a toss.
C8_FailedTurnedDownVerifiedJoined ==
  \E x, y \in Handlers :
    /\ h[x].pc = "done" /\ h[x].result = "failed_tx" /\ h[x].txStatus = "failed"
    /\ h[y].pc = "done" /\ h[y].result = "joined" /\ h[y].txStatus = "success"
    /\ includes(store[h[y].tossId].participants, h[y].sender)

\* C9: in every persisted toss record the participants list and the
\* participantOptions list have the same length.
C9_ListsSameLength ==
  \A t \in TossIds :
    Len(store[t].participants) = Len(store[t].participantOptions)

\* C10: in every persisted toss record every recorded participant option
\* equals, case-insensitively, one of the options of that toss.
C10_RecordedOptionsValid ==
  \A t \in TossIds :
    \A k \in DOMAIN store[t].participantOptions :
      toLowerCase(store[t].participantOptions[k].option)
        \in {toLowerCase(o) : o \in Range(store[t].tossOptions)}

\* every handler slot is free: no engine operation is in progress
AllIdle == \A x \in Handlers : h[x].pc = "idle"

\* C11: toss ids are unique and increasing in creation order: the save of a
\* Create never writes the file of a toss that already exists, and two
\* Creates under way never hold the same id.
C11_CreateNeverOverwrites ==
  [][\A x \in Handlers :
       (h[x].pc = "create_save" /\ h'[x].pc = "create_options")
         => /\ ~ Exists(h[x].tossId)
            /\ \A y \in Handlers \ {x} :
                 h[y].pc \in {"create_save", "create_options"}
                   => h[y].tossId # h[x].tossId]_vars

\* C12: whenever no engine operation is in progress, the escrow wallet of a
\* toss is in the monitor's wallet map if and only if the status of the toss
\* is neither COMPLETED nor CANCELLED.
C12_MonitoredIffNotTerminal ==
  AllIdle =>
    \A t \in TossIds :
      Exists(t) => (t \in monitored <=> store[t].status \notin Terminal)

\* C12, the half that concerns the paths by which a toss becomes terminal:
\* with no operation in progress, no toss that is COMPLETED or CANCELLED has
\* its wallet in the monitor's map.
C12_TerminalNotMonitored ==
  AllIdle =>
    \A t \in TossIds : store[t].status \in Terminal => t \notin monitored

\* C18: after a restart, before any message is handled and before the first
\* polling tick, the monitor's wallet map holds the escrow wallet of every
\* persisted toss whose status is not COMPLETED or CANCELLED.
C18_MonitoredRebuiltAtStart ==
  msgs = 0 =>
    \A t \in TossIds :
      (Exists(t) /\ store[t].status \notin Terminal) => t \in monitored

\* C19: a successful transfer seen by the monitor at the wallet of a toss that
\* is bound to a conversation and not closed, whose amount decodes to an
\* option of the toss, makes its sender a participant: the handling of such
\* a transfer never ends because the sender could not be identified.
C19_DetectedTransferJoins ==
  \A x \in Handlers :
    ~ ( /\ h[x].pc = "done" /\ h[x].kind = "event"
        /\ h[x].result = "event_unidentified_sender"
        /\ store[h[x].tossId].status \notin Terminal )

\* the callback is being called by runner r for the Transfer to wallet t in
\* block b
Reporting(r, t, b) ==
  run[r].pc = "callback" /\ run[r].cur = t /\ Head(run[r].todo) = b

\* runner r takes a step of its scan of a wallet
ScanStep(r) == run[r].pc \in {"getLogs", "callback"} /\ run'[r] # run[r]

\* a scan of wallet t under way has the Transfer in block b behind it: it
\* has already passed it to the callback, or it started from a checkpoint at
\* or above b, which an earlier scan that covered b had written
Passed(t, b) ==
  \E r \in Runners :
    /\ run[r].pc \in {"getLogs", "callback"} /\ run[r].cur = t
    /\ \/ run[r].from >= b
       \/ /\ run[r].pc = "callback"
          /\ run[r].from < b /\ b < Head(run[r].todo)

\* the Transfer to wallet t in block b is owed: the wallet is monitored,
\* polling runs, the block is above the checkpoint, the initial one and the
\* present one, and no scan under way has the Transfer behind it
Owed(t, b) ==
  /\ <<t, b>> \in chainLogs /\ t \in monitored
  /\ b > addedAt[t] /\ b > lastCheckedBlock[t]
  /\ isMonitoring /\ ~ Passed(t, b)

\* C13: while a wallet stays monitored and polling runs, every Transfer to it
\* in a block above its checkpoint is eventually passed to the callback, also
\* when calls of some ticks fail; a failed tick does not stop later ticks.
\* A Transfer that is owed stops being owed only by being passed to the
\* callback, and again and again no owed Transfer is left waiting.
C13_TransferEventuallyReported ==
  /\ [][\A t \in TossIds : \A b \in 1..MaxBlock :
          (Owed(t, b) /\ ~ Owed(t, b)' /\ t \in monitored')
            => \E r \in Runners : Reporting(r, t, b)]_vars
  /\ []<>(\A t \in TossIds : \A b \in 1..MaxBlock :
            Owed(t, b) => \E r \in Runners : Reporting(r, t, b))

\* C13 witness: the scan of one tick has failed and the callback is being
\* called by another tick for a Transfer to a monitored wallet.
C13_ReportedAfterFailedTick ==
  \E r, q \in Runners :
    /\ q # r /\ run[q].err
    /\ run[r].pc = "callback" /\ run[r].cur \in monitored
    /\ Head(run[r].todo) > addedAt[run[r].cur]

\* C14: a wallet gets the head block at the moment of addWalletToMonitor as
\* its checkpoint, and no Transfer in a block less than or equal to that
\* initial checkpoint is ever passed to the callback.
C14_NothingReportedUpToInitialCheckpoint ==
  [][/\ \A t \in TossIds :
          (t \notin monitored /\ t \in monitored')
            => lastCheckedBlock'[t] = head
     /\ \A r \in Runners :
          (ScanStep(r) /\ run'[r].pc = "callback")
            => Head(run'[r].todo) > addedAt[run'[r].cur]]_vars

\* C15: when an error occurred while a tick processed a wallet (the log query
\* failed or the handling of one of its events failed), that tick does not
\* advance the checkpoint of the wallet.
C15_ErrorKeepsCheckpoint ==
  [][\A r \in Runners :
       (ScanStep(r) /\ run'[r].err)
         => lastCheckedBlock'[run[r].cur] = lastCheckedBlock[run[r].cur]]_vars

\* C16: after stopMonitoring has returned, no polling tick starts until
\* startMonitoring is called again, also when stopMonitoring was called while
\* startMonitoring was in its initial check.
C16_NoTickAfterStop ==
  [][\A r \in Runners :
       (run[r].pc = "idle" /\ run'[r].kind = "timer") => isMonitoring]_vars

\* C17: after removeWalletFromMonitor has returned for a wallet, the callback
\* is not called for it and its checkpoint is not written, also when a tick
\* was scanning the wallet when it was removed.
C17_RemovedWalletLeftAlone ==
  [][\A r \in Runners :
       ScanStep(r) =>
         /\ run'[r].pc = "callback" => run[r].cur \in monitored
         /\ lastCheckedBlock'[run[r].cur] # lastCheckedBlock[run[r].cur]
              => run[r].cur \in monitored]_vars

\* C17, the callback alone: the callback is called only for a wallet that is
\* in the map
C17_CallbackOnlyForMonitored ==
  [][\A r \in Runners :
       (ScanStep(r) /\ run'[r].pc = "callback") => run[r].cur \in monitored]_vars

\* C20: for every option index i in {0, 1} and every stake above 0 and up to
\* 10 with up to six fractional digits, decoding the amount that the join
\* button encodes for (i, stake) yields option index i: once the amount has
\* been decoded, the option read is the option of the button.
C20_CodecRoundTrip ==
  codec.pc = "done" =>
    codec.option = getToss(1).tossOptions[codec.index + 1]

\* C21: decoding a received amount a yields an option only when r = a mod 10
\* is in 1..5 and r - 1 is less than the number of options of the target
\* toss, and then it yields the option at index r - 1 (counted from 0); for
\* every other amount (remainder 0, remainder 6 or more, index out of range)
\* it yields no option.
C21_DecodeByRemainder ==
  codec.pc = "done" =>
    LET r       == codec.amount % 10
        options == IF Exists(1) THEN store[1].tossOptions ELSE <<>>
    IN IF r \in 1..5 /\ r - 1 < Len(options)
       THEN codec.option = options[r]
       ELSE codec.option = NoOption

\* C21 witness: remainder 5 with a toss of two options has been decoded to no
\* option
C21_RemainderFiveTwoOptions ==
  /\ codec.pc = "done" /\ codec.amount % 10 = 5
  /\ Exists(1) /\ Len(store[1].tossOptions) = 2
  /\ codec.option = NoOption

\* executeToss returns to handler x with the toss saved as COMPLETED
ExecuteTossReturns(x) ==
  h[x].pc \in {"exec_done", "exec_nowinners"} /\ h'[x].pc = "clear_read"

\* C22: after a Close has returned COMPLETED, the payouts sent plus the
\* shares of the recorded failed winners add up to stake x number of
\* participants, for every number of participants and winners.  Every
\* payout and every failed winner's share is totalPot / winners.length, so
\* with w winners the sum is the pot exactly when the transfers that
\* succeeded and the winners recorded as failed are w together; with no
\* winner nothing is sent and nothing recorded.
C22_PotConserved ==
  [][\A x \in Handlers :
       ExecuteTossReturns(x) =>
         LET toss    == store'[h[x].tossId]
             w       == Len(winnersOf(toss, toss.tossResult))
             pot     == toss.tossAmount * Len(toss.participants)
             shares  == Cardinality(h[x].succ) + Len(h[x].failed)
         IN IF w = 0 THEN pot = 0 ELSE shares * pot = w * pot]_vars

\* C23: when a Close that found at least one winner returns, the toss is
\* COMPLETED and every winner either received a payout transfer that
\* succeeded or is listed in failedWinners; a transfer that fails is followed
\* by the next winner or by the completion, never by the end of the Close.
C23_WinnersPaidOrRecorded ==
  [][\A x \in Handlers :
       /\ (h[x].pc = "exec_done" /\ h'[x].pc = "clear_read") =>
            LET t    == h[x].tossId
                toss == store'[t]
            IN /\ toss.status = COMPLETED
               /\ winnersOf(toss, toss.tossResult) # <<>>
               /\ \A w \in Range(winnersOf(toss, toss.tossResult)) :
                    \/ w \in h[x].succ /\ transfers'[t][w] > 0
                    \/ w \in Range(toss.failedWinners)
       /\ (h[x].pc = "exec_pay" /\ Len(h'[x].failed) > Len(h[x].failed)) =>
            h'[x].pc \in {"exec_pay", "exec_done"}]_vars

\* C23 witness: a Close whose payout to its winner failed has returned, and
\* the toss is COMPLETED with that winner in failedWinners
C23_CompletedWithFailedWinner ==
  \E x \in Handlers : \E t \in TossIds :
    /\ h[x].kind = "close" /\ h[x].pc = "clear_read"
    /\ store[t].status = COMPLETED
    /\ store[t].failedWinners # <<>>
    /\ Range(store[t].failedWinners) \subseteq
         Range(winnersOf(store[t], store[t].tossResult))

\* the closing save of executeToss or of forceCloseToss, made by handler x
ClosingSave(x) ==
  h[x].pc \in {"exec_done", "force_done"} /\ h'[x].pc = "clear_read"

\* C24: for a Close with at least one winner and for a ForceClose with at
\* least one participant, the paymentSuccess that the closing save writes is
\* true exactly when at least one outbound transfer (payout or refund) of
\* that call succeeded.
C24_PaymentSuccessIffTransfer ==
  [][\A x \in Handlers :
       ClosingSave(x) =>
         (store'[h[x].tossId].paymentSuccess <=> h[x].succ # {})]_vars

\* forceCloseToss returns to handler x with the toss saved as CANCELLED
ForceCloseReturns(x) ==
  h[x].pc \in {"force_done", "force_empty"} /\ h'[x].pc = "clear_read"

ClosingElsewhere(x, t) ==
  \E y \in Handlers \ {x} :
    h[y].kind = "close" /\ h[y].tossId = t /\ h[y].pc \notin {"idle", "done"}

\* handler x is the creator's Close of a toss that an earlier Close left
\* IN_PROGRESS: executeToss has read the record and no other close of the
\* toss is running
CloseRetry(x) ==
  /\ h[x].pc = "exec_begin"
  /\ h[x].toss.id # 0
  /\ h[x].toss.status = IN_PROGRESS
  /\ h[x].sender = h[x].toss.creator
  /\ store[h[x].tossId].status = IN_PROGRESS
  /\ ~ ClosingElsewhere(x, h[x].tossId)

\* C26: a Close by the creator on a toss that a failed Close left
\* IN_PROGRESS on disk is accepted: executeToss does not end with an error
\* that leaves the record IN_PROGRESS as it was.
C26_CloseRetryAccepted ==
  [][\A x \in Handlers :
       CloseRetry(x) =>
         ~ (h'[x].pc = "done" /\ h'[x].result = "close_error"
              /\ store' = store)]_vars

\* executeToss in handler x accepts the record it read: IN_PROGRESS is saved
ExecuteTossAccepts(x) ==
  h[x].pc = "exec_begin" /\ h'[x].pc \in {"exec_cancel", "exec_nowinners", "exec_pay"}

\* C27: a Close (a close command with a winning option) on a toss with
\* fewer than 2 participants is rejected at the command: the handler ends
\* with the not-enough-participants reply, no transfer is made and no toss
\* record changes; and executeToss never accepts a record with fewer than 2
\* participants.  A ForceClose (close command without an option) by the
\* creator goes on to forceCloseToss whatever the number of participants.
C27_CloseNeedsTwoParticipants ==
  [][\A x \in Handlers :
       /\ \A t \in TossIds :
            ( /\ h[x].pc = "idle" /\ h'[x].kind = "close"
              /\ h'[x].tossId = t /\ Exists(t)
              /\ h'[x].sender = store[t].creator
              /\ Len(store[t].participants) < 2 )
            => IF h'[x].pc = "done"
               THEN /\ h'[x].result = "not_enough_participants"
                    /\ store' = store /\ transfers' = transfers
               ELSE h'[x].opt = NoOption /\ h'[x].pc = "force_read"
       /\ ExecuteTossAccepts(x) => Len(h[x].toss.participants) >= 2]_vars

\* C27, executeToss alone: it never accepts a record with fewer than 2
\* participants
C27_ExecuteTossNeedsTwo ==
  [][\A x \in Handlers :
       ExecuteTossAccepts(x) => Len(h[x].toss.participants) >= 2]_vars

\* forceCloseToss in handler x accepts the record it read: IN_PROGRESS is
\* saved
ForceCloseTossAccepts(x) ==
  h[x].pc = "force_begin" /\ h'[x].pc \in {"force_empty", "force_pay"}

\* C28: a close command, with or without a winning option, from a user who
\* is not the creator of the conversation's active toss is rejected with the
\* only-the-creator reply, sends no transfer and changes no toss record; and
\* executeToss and forceCloseToss accept only a record whose creator is the
\* sender of the command.
C28_OnlyCreatorCloses ==
  [][\A x \in Handlers :
       /\ \A t \in TossIds :
            ( /\ h[x].pc = "idle" /\ h'[x].kind = "close"
              /\ h'[x].tossId = t /\ Exists(t)
              /\ h'[x].sender # store[t].creator )
            => /\ h'[x].pc = "done" /\ h'[x].result = "not_creator"
               /\ store' = store /\ transfers' = transfers
       /\ (ExecuteTossAccepts(x) \/ ForceCloseTossAccepts(x))
            => h[x].sender = h[x].toss.creator]_vars

\* C29: Create accepts a stake only if 0 < stake <= 10: no toss is
\* persisted, and no id or wallet allocated, with a stake that is zero,
\* negative, above 10 or not a number.
C29_StakeWithinLimits ==
  \A t \in TossIds :
    Exists(t) => /\ 0 < store[t].tossAmount
                 /\ store[t].tossAmount <= MAX_USDC_AMOUNT * MinorPerUnit

\* C30: in every persisted toss record, status CREATED implies that the
\* participants list is empty, and status WAITING_FOR_PLAYER implies that it
\* has at least one participant.
C30_StatusMatchesParticipants ==
  \A t \in TossIds :
    Exists(t) =>
      /\ store[t].status = CREATED => store[t].participants = <<>>
      /\ store[t].status = WAITING_FOR_PLAYER => store[t].participants # <<>>

\* handler x produces the confirmation of a toss creation
AcknowledgesCreation(x) ==
  h[x].pc = "create_options" /\ h'[x].pc = "done" /\ h'[x].result = "created"

\* handler x produces the confirmation of a join
AcknowledgesJoin(x) ==
  h[x].pc = "add_save" /\ h'[x].pc = "done" /\ h'[x].result = "joined"

\* C31: when a handler produces the message that acknowledges a toss
\* creation, the store holds the record of that toss with its creator and
\* options; when it produces the message that acknowledges a join, the
\* stored record of the toss has the joiner among its participants.  A
\* store write that fails is followed by no such message.
C31_AcknowledgedIsStored ==
  [][\A x \in Handlers :
       /\ AcknowledgesCreation(x) =>
            /\ store'[h[x].tossId].id = h[x].tossId
            /\ store'[h[x].tossId].creator = h[x].sender
            /\ store'[h[x].tossId].tossOptions = ParsedOptions
       /\ AcknowledgesJoin(x) =>
            includes(store'[h[x].tossId].participants, h[x].sender)]_vars

\* handler x takes a refresh command and has read the active toss and the
\* balance of its wallet
RefreshReads(x) ==
  h[x].pc = "idle" /\ h'[x].kind = "refresh" /\ h'[x].tossId # 0

\* C32: a refresh that reads a toss with n recorded participants and an
\* escrow balance b is to add exactly floor((b - stake * n) / stake)
\* participants when b > stake * n, and none otherwise; every participant
\* it adds is recorded with the first option of the toss.
C32_RefreshAddsInferredCount ==
  [][\A x \in Handlers :
       /\ RefreshReads(x) =>
            LET toss  == store[h'[x].tossId]
                b     == h'[x].amount
                owed  == toss.tossAmount * Len(toss.participants)
            IN Len(h'[x].todo) =
                 IF b > owed THEN (b - owed) \div toss.tossAmount ELSE 0
       /\ (h[x].pc = "refresh_add" /\ store' # store) =>
            LET rec == store'[h[x].tossId]
            IN /\ rec.tossOptions # <<>>
               /\ rec.participantOptions[Len(rec.participantOptions)].option
                    = rec.tossOptions[1]]_vars

\* a step of handler x that changes a toss record or sends a transfer
HandlerWrites(x) ==
  h'[x] # h[x] /\ (store' # store \/ transfers' # transfers)

C34_VerificationWithinThirtySeconds ==
  /\ retry.calls <= maxRetries + 1
  /\ retry.waited <= 30 * 1000 * TicksPerMs


\* executeToss has found that the winning option matches none of the options
RejectsInvalidOption(x) ==
  /\ h[x].pc = "exec_cancel"
  /\ h'[x].pc = "done"

\* C35: a close whose winning option is none of the toss's options makes no
\* transfer and leaves the stored status WAITING_FOR_PLAYER, so that the
\* creator can close again
C35_InvalidOptionKeepsWaiting ==
  [][\A x \in Handlers :
       RejectsInvalidOption(x) =>
         /\ transfers' = transfers
         /\ store'[h[x].tossId].status = WAITING_FOR_PLAYER]_vars


\* the handler is about to add its sender to the toss as a new participant
AddsParticipant(x) ==
  /\ h[x].pc = "add_save"
  /\ Len(store'[h[x].tossId].participants) > Len(store[h[x].tossId].participants)

\* handler y has joined another sender to the same toss on the transaction
\* that handler x refers to
CreditedBefore(x, y) ==
  /\ y # x
  /\ h[y].pc = "done" /\ h[y].result = "joined"
  /\ h[y].txHash = h[x].txHash
  /\ h[y].tossId = h[x].tossId
  /\ h[y].sender # h[x].sender

\* C36: one on-chain transfer is credited to at most one participant: when
\* the hash of a transaction that has already joined one sender is presented
\* by a different sender, no second participant is added to the toss
C36_OneParticipantPerTransfer ==
  [][\A x, y \in Handlers : CreditedBefore(x, y) => ~ AddsParticipant(x)]_vars


\* floor(stake * 10^6): the stake of the toss in minor units
stakeMinorUnits(toss) == toss.tossAmount

\* C37: a participant is recorded from a payment only if the verified
\* transfer to the escrow wallet of the toss carries at least the stake in
\* minor units; a smaller transfer with a valid remainder tag adds nobody
C37_ParticipantPaidTheStake ==
  [][\A x \in Handlers :
       AddsParticipant(x) =>
         h[x].amount >= stakeMinorUnits(store[h[x].tossId])]_vars


\* C38: the conversationId of a toss does not change while the toss is not
\* COMPLETED or CANCELLED: handling a transaction reference for a toss in a
\* conversation other than its own neither binds the toss to that
\* conversation nor takes the conversationId of another toss away
C38_ConversationIdFixed ==
  [][\A t \in TossIds :
       (Exists(t) /\ store[t].status \notin Terminal) =>
         store'[t].conversationId = store[t].conversationId]_vars


\* C39: for every stake that Create accepts and every number of participants
\* and winners, the prize per winner that Close computes is an amount the
\* wallet service's transfer accepts: no payout is refused because the prize
\* exceeds the limit per transfer
C39_PrizeWithinTransferLimit ==
  payout.pc = "done" => payout.transfer # "exceeds_maximum"


\* C40: the checkpoint of a monitored wallet never decreases: a scan that
\* succeeds sets it to the head that its tick read, and when a tick starts
\* before the tick before it has finished, the older tick's later write does
\* not move the checkpoint back to a lower block
C40_CheckpointNeverDecreases ==
  [][\A t \in TossIds :
       (t \in monitored /\ t \in monitored')
         => lastCheckedBlock'[t] >= lastCheckedBlock[t]]_vars

====
